---- MODULE Spec2Model ----
(***************************************************************************)
(* Model of automation_script/excel_ops.py: the key normaliser, the field  *)
(* matcher with its synonym table, the template layout detector and the    *)
(* template fillers.                                                       *)
(*                                                                         *)
(* A Python str is a sequence of one-character strings.  A Python value    *)
(* (cell content, JSON value, return value) is a record                    *)
(*   [t |-> tag, s |-> characters, n |-> number, l |-> items]              *)
(* with t in {"none", "str", "int", "list", "dict"}; the items of a list   *)
(* are values, the items of a dict are <<key, value>> pairs in insertion   *)
(* order.                                                                  *)
(***************************************************************************)
EXTENDS Integers, Sequences, FiniteSets, TLC

VARIABLES
    pc,               \* position of the running call
    template_field,   \* find_matching_data_key: the label argument
    data_keys,        \* find_matching_data_key: the data_keys argument
    matching_key,     \* find_matching_data_key: the returned value
    return_line,      \* find_matching_data_key: the return statement taken
    template,         \* the template file: its cells, [<<row, column>> -> value]
    arg_data,         \* the data argument as fill_excel_template received it
    ws,               \* the worksheet in memory (wb.active)
    data,             \* the data object handed to the fillers
    template_format,  \* detect_template_format: first component of the result
    header_row,       \* detect_template_format: second component of the result
    filled,           \* the fill count returned by the filler
    saved,            \* the output file: whether wb.save wrote it, and its cells
    norm_arg,         \* normalize_key: the key argument
    normalized,       \* normalize_key: the returned value
    renormalized,     \* normalize_key: the value returned for the returned value
    folder_files,     \* the PDF files in the watched folders
    event_queue,      \* watcher: the file-created events not yet handled
    processed_files,  \* watcher: the set processed_files
    watcher_pc,       \* watcher: position of the handler on_created
    watcher_path,     \* watcher: event.src_path of the event being handled
    watcher_runs,     \* watcher: process_workflow calls made, per file path
    web_pc,           \* web viewer: position of the upload being handled
    web_path,         \* web viewer: dest_path of the upload being handled
    arrivals          \* files dropped, removed or uploaded so far

vars == <<pc, template_field, data_keys, matching_key, return_line, template,
          arg_data, ws, data, template_format, header_row, filled, saved,
          norm_arg, normalized, renormalized, folder_files, event_queue,
          processed_files, watcher_pc, watcher_path, watcher_runs, web_pc,
          web_path, arrivals>>

----------------------------------------------------------------------------
(* Python values                                                           *)

PyNone == [t |-> "none", s |-> <<>>, n |-> 0, l |-> <<>>]
PyStr(s) == [t |-> "str", s |-> s, n |-> 0, l |-> <<>>]
PyInt(n) == [t |-> "int", s |-> <<>>, n |-> n, l |-> <<>>]
PyList(l) == [t |-> "list", s |-> <<>>, n |-> 0, l |-> l]
PyDict(l) == [t |-> "dict", s |-> <<>>, n |-> 0, l |-> l]

\* Python truth value: None, "", 0, [] and {} are falsy.
Truthy(v) ==
    CASE v.t = "none" -> FALSE
      [] v.t = "str"  -> v.s # <<>>
      [] v.t = "int"  -> v.n # 0
      [] OTHER        -> v.l # <<>>

\* F(x), with x evaluated once.
With(x, F(_)) == CHOOSE r \in {F(y) : y \in {x}} : TRUE

Min(S) == With(S, LAMBDA T : CHOOSE x \in T : \A y \in T : x <= y)
Max(S) == With(S, LAMBDA T : CHOOSE x \in T : \A y \in T : x >= y)

----------------------------------------------------------------------------
(* Python str operations                                                   *)

Whitespace == {" ", "\t", "\n"}

\* The lower-case letter of each upper-case letter.
LowerOf ==
    [A |-> "a", B |-> "b", C |-> "c", D |-> "d", E |-> "e", F |-> "f", G |-> "g",
     H |-> "h", I |-> "i", J |-> "j", K |-> "k", L |-> "l", M |-> "m", N |-> "n",
     O |-> "o", P |-> "p", Q |-> "q", R |-> "r", S |-> "s", T |-> "t", U |-> "u",
     V |-> "v", W |-> "w", X |-> "x", Y |-> "y", Z |-> "z"]

LowerChar(c) == IF c \in DOMAIN LowerOf THEN LowerOf[c] ELSE c

\* str.lower()
Lower(s) == [i \in DOMAIN s |-> LowerChar(s[i])]

\* str.replace(old, new) for one-character old and new
Replace(s, old, new) ==
    With(s, LAMBDA x : [i \in DOMAIN x |-> IF x[i] = old THEN new ELSE x[i]])

\* str.strip()
StripValue(s) ==
    LET keep == {i \in DOMAIN s : s[i] \notin Whitespace}
    IN  IF keep = {} THEN <<>> ELSE SubSeq(s, Min(keep), Max(keep))
Strip(s) == With(s, StripValue)

\* a in b
IsSubstring(a, b) ==
    \E x \in {a}, y \in {b} :
        \/ x = <<>>
        \/ /\ Len(x) <= Len(y)
           /\ \E i \in 0..(Len(y) - Len(x)) :
                  y[i + 1] = x[1] /\ SubSeq(y, i + 1, i + Len(x)) = x

----------------------------------------------------------------------------
(* FIELD_MAPPINGS                                                          *)

\* The dict display of lines 12-92 as written, one <<pattern, candidates>>
\* pair per line of the display.
FieldMappingsDisplay ==
   <<
      <<<<"p","r","o","j","e","c","t"," ","n","a","m","e">>, <<<<"p","r","o","j","e","c","t","_","n","a","m","e">>, <<"p","r","o","j","e","c","t">>>>>>,
      <<<<"e","n","g","i","n","e","e","r","i","n","g"," ","c","o","n","s","u","l","t","a","n","t">>, <<<<"e","n","g","i","n","e","e","r","i","n","g","_","c","o","n","s","u","l","t","a","n","t">>, <<"c","o","n","s","u","l","t","a","n","t">>>>>>,
      <<<<"n","a","m","e"," ","o","f"," ","t","h","e"," ","e","p","c">>, <<<<"e","p","c">>, <<"e","p","c","_","n","a","m","e">>, <<"n","a","m","e","_","o","f","_","e","p","c">>>>>>,
      <<<<"9","c","o","m"," ","n","u","m","b","e","r","s">>, <<<<"9","c","o","m","_","n","u","m","b","e","r","s">>, <<"e","q","u","i","p","m","e","n","t","_","l","i","s","t">>, <<"a","p","p","l","i","c","a","b","l","e","_","9","c","o","m">>>>>>,
      <<<<"s","t","a","n","d","a","r","d","s">>, <<<<"s","t","a","n","d","a","r","d","s">>, <<"a","p","p","l","i","c","a","b","l","e","_","s","t","a","n","d","a","r","d","s">>, <<"l","i","s","t","_","o","f","_","s","t","a","n","d","a","r","d","s">>>>>>,
      <<<<"n","u","m","b","e","r"," ","o","f"," ","s","y","s","t","e","m","s">>, <<<<"n","u","m","b","e","r","_","o","f","_","s","y","s","t","e","m","s">>, <<"s","y","s","t","e","m","s","_","c","o","u","n","t">>>>>>,
      <<<<"w","a","t","t","a","g","e">>, <<<<"w","a","t","t","a","g","e">>, <<"l","o","a","d","_","v","a","l","u","e">>, <<"l","o","a","d">>, <<"w","a","t","t","a","g","e","_","l","o","a","d">>>>>>,
      <<<<"l","o","a","d"," ","v","a","l","u","e">>, <<<<"w","a","t","t","a","g","e">>, <<"l","o","a","d","_","v","a","l","u","e">>, <<"l","o","a","d">>>>>>,
      <<<<"n","u","m","b","e","r"," ","o","f"," ","s","i","t","e","s">>, <<<<"n","u","m","b","e","r","_","o","f","_","s","i","t","e","s">>, <<"s","i","t","e","s","_","c","o","u","n","t">>, <<"n","u","m","b","e","r","s","_","o","f","_","s","i","t","e","s">>>>>>,
      <<<<"b","a","t","t","e","r","y"," ","t","y","p","e">>, <<<<"b","a","t","t","e","r","y","_","t","y","p","e">>, <<"r","e","q","u","i","r","e","d","_","b","a","t","t","e","r","y","_","t","y","p","e">>>>>>,
      <<<<"b","a","t","t","e","r","y"," ","a","u","t","o","n","o","m","y">>, <<<<"b","a","t","t","e","r","y","_","a","u","t","o","n","o","m","y">>, <<"a","u","t","o","n","o","m","y">>, <<"r","e","q","u","i","r","e","d","_","b","a","t","t","e","r","y","_","a","u","t","o","n","o","m","y">>>>>>,
      <<<<"b","a","t","t","e","r","y"," ","c","a","p","a","c","i","t","y">>, <<<<"b","a","t","t","e","r","y","_","c","a","p","a","c","i","t","y">>, <<"c","a","p","a","c","i","t","y">>, <<"r","e","q","u","i","r","e","d","_","b","a","t","t","e","r","y","_","c","a","p","a","c","i","t","y">>>>>>,
      <<<<"e","n","v","i","r","o","n","m","e","n","t","a","l">>, <<<<"e","n","v","i","r","o","n","m","e","n","t","a","l","_","c","o","n","d","i","t","i","o","n","s">>, <<"e","n","v","i","r","o","n","m","e","n","t">>>>>>,
      <<<<"t","e","m","p","e","r","a","t","u","r","e">>, <<<<"t","e","m","p","e","r","a","t","u","r","e","_","r","a","n","g","e">>, <<"t","e","m","p","e","r","a","t","u","r","e">>>>>>,
      <<<<"s","u","p","p","o","r","t"," ","s","t","r","u","c","t","u","r","e">>, <<<<"s","u","p","p","o","r","t","_","s","t","r","u","c","t","u","r","e">>, <<"s","t","r","u","c","t","u","r","e">>>>>>,
      <<<<"s","p","e","c","i","f","i","c","a","t","i","o","n","s">>, <<<<"o","t","h","e","r","_","s","p","e","c","i","f","i","c","a","t","i","o","n","s">>, <<"s","p","e","c","i","f","i","c","a","t","i","o","n","s">>, <<"o","t","h","e","r","_","e","q","u","i","p","m","e","n","t">>>>>>,
      <<<<"o","t","h","e","r"," ","s","e","r","v","i","c","e">>, <<<<"o","t","h","e","r","_","s","e","r","v","i","c","e","s">>, <<"s","e","r","v","i","c","e","s">>>>>>,
      <<<<"s","o","l","a","r"," ","p","a","n","e","l","s"," ","c","o","n","f","i","g">>, <<<<"s","o","l","a","r","_","p","a","n","e","l","s","_","c","o","n","f","i","g">>, <<"s","o","l","a","r","_","c","o","n","f","i","g">>>>>>,
      <<<<"c","h","a","r","g","e"," ","c","o","n","t","r","o","l","l","e","r","s"," ","c","o","n","f","i","g">>, <<<<"c","h","a","r","g","e","_","c","o","n","t","r","o","l","l","e","r","s","_","c","o","n","f","i","g">>, <<"c","h","a","r","g","e","_","c","o","n","t","r","o","l","l","e","r","_","c","o","n","f","i","g">>>>>>,
      <<<<"b","a","t","t","e","r","i","e","s"," ","c","o","n","f","i","g">>, <<<<"b","a","t","t","e","r","i","e","s","_","c","o","n","f","i","g">>, <<"b","a","t","t","e","r","y","_","c","o","n","f","i","g">>>>>>,
      <<<<"l","o","a","d","-","l","i","s","t">>, <<<<"l","o","a","d","_","l","i","s","t">>, <<"l","o","a","d","s">>>>>>,
      <<<<"l","o","a","d"," ","l","i","s","t">>, <<<<"l","o","a","d","_","l","i","s","t">>, <<"l","o","a","d","s">>>>>>,
      <<<<"f","u","t","u","r","e"," ","e","x","p","a","n","s","i","o","n">>, <<<<"f","u","t","u","r","e","_","e","x","p","a","n","s","i","o","n","_","f","a","c","t","o","r">>, <<"f","u","t","u","r","e","_","e","x","p","a","n","s","i","o","n">>>>>>,
      <<<<"b","a","t","t","e","r","y"," ","b","a","c","k","-","u","p">>, <<<<"b","a","t","t","e","r","y","_","b","a","c","k","u","p","_","t","i","m","e">>, <<"b","a","c","k","u","p","_","t","i","m","e">>>>>>,
      <<<<"b","a","c","k","-","u","p"," ","t","i","m","e">>, <<<<"b","a","t","t","e","r","y","_","b","a","c","k","u","p","_","t","i","m","e">>, <<"b","a","c","k","u","p","_","t","i","m","e">>>>>>,
      <<<<"a","g","e","i","n","g"," ","f","a","c","t","o","r">>, <<<<"a","g","e","i","n","g","_","f","a","c","t","o","r">>, <<"a","g","i","n","g","_","f","a","c","t","o","r">>>>>>,
      <<<<"d","e","s","i","g","n"," ","f","a","c","t","o","r">>, <<<<"d","e","s","i","g","n","_","f","a","c","t","o","r">>>>>>,
      <<<<"t","e","m","p","e","r","a","t","u","r","e"," ","c","o","m","p","e","n","s","a","t","i","o","n">>, <<<<"t","e","m","p","e","r","a","t","u","r","e","_","c","o","m","p","e","n","s","a","t","i","o","n">>>>>>,
      <<<<"o","t","h","e","r"," ","f","a","c","t","o","r">>, <<<<"o","t","h","e","r","_","b","a","t","t","e","r","y","_","f","a","c","t","o","r","s">>, <<"o","t","h","e","r","_","f","a","c","t","o","r","s">>>>>>,
      <<<<"c","o","m","p","u","t","e","d"," ","r","e","q","u","i","r","e","d"," ","b","a","t","t","e","r","y">>, <<<<"c","o","m","p","u","t","e","d","_","b","a","t","t","e","r","y","_","c","a","p","a","c","i","t","y">>, <<"r","e","q","u","i","r","e","d","_","b","a","t","t","e","r","y","_","c","a","p","a","c","i","t","y">>>>>>,
      <<<<"r","e","q","u","i","r","e","d"," ","b","a","t","t","e","r","y"," ","c","a","p","a","c","i","t","y">>, <<<<"c","o","m","p","u","t","e","d","_","b","a","t","t","e","r","y","_","c","a","p","a","c","i","t","y">>, <<"r","e","q","u","i","r","e","d","_","b","a","t","t","e","r","y","_","c","a","p","a","c","i","t","y">>>>>>,
      <<<<"e","n","d"," ","o","f"," ","d","i","s","c","h","a","r","g","e">>, <<<<"e","n","d","_","o","f","_","d","i","s","c","h","a","r","g","e","_","v","o","l","t","a","g","e">>, <<"e","o","d","_","v","o","l","t","a","g","e">>>>>>,
      <<<<"c","e","l","l","s"," ","i","n"," ","s","e","r","i","e","s">>, <<<<"c","e","l","l","s","_","i","n","_","s","e","r","i","e","s">>, <<"n","u","m","b","e","r","_","o","f","_","c","e","l","l","s">>>>>>,
      <<<<"p","r","o","p","o","s","e","d"," ","b","a","t","t","e","r","y"," ","c","e","l","l">>, <<<<"p","r","o","p","o","s","e","d","_","c","e","l","l","_","c","a","p","a","c","i","t","y">>, <<"p","r","o","p","o","s","e","d","_","c","a","p","a","c","i","t","y">>>>>>,
      <<<<"p","a","r","a","l","l","e","l"," ","s","e","t","s">>, <<<<"p","a","r","a","l","l","e","l","_","s","t","r","i","n","g","s">>, <<"n","u","m","b","e","r","_","o","f","_","p","a","r","a","l","l","e","l">>>>>>,
      <<<<"p","a","r","a","l","l","e","l"," ","s","t","r","i","n","g","s">>, <<<<"p","a","r","a","l","l","e","l","_","s","t","r","i","n","g","s">>, <<"n","u","m","b","e","r","_","o","f","_","p","a","r","a","l","l","e","l">>>>>>,
      <<<<"d","e","r","a","t","i","n","g"," ","f","a","c","t","o","r","s">>, <<<<"d","e","r","a","t","i","n","g","_","f","a","c","t","o","r","s">>, <<"s","o","l","a","r","_","d","e","r","a","t","i","n","g">>>>>>,
      <<<<"s","u","n"," ","h","o","u","r","s">>, <<<<"s","u","n","_","h","o","u","r","s">>, <<"e","f","f","e","c","t","i","v","e","_","s","u","n","_","h","o","u","r","s">>>>>>,
      <<<<"f","u","t","u","r","e"," ","f","a","c","t","o","r">>, <<<<"s","o","l","a","r","_","f","u","t","u","r","e","_","f","a","c","t","o","r">>, <<"f","u","t","u","r","e","_","f","a","c","t","o","r">>>>>>,
      <<<<"f","o","r","m","u","l","a">>, <<<<"s","o","l","a","r","_","s","i","z","i","n","g","_","f","o","r","m","u","l","a">>, <<"s","i","z","i","n","g","_","f","o","r","m","u","l","a">>>>>>,
      <<<<"t","o","t","a","l"," ","d","a","i","l","y"," ","r","e","q","u","i","r","e","d">>, <<<<"t","o","t","a","l","_","d","a","i","l","y","_","a","h">>, <<"d","a","i","l","y","_","r","e","q","u","i","r","e","d","_","a","h">>>>>>,
      <<<<"p","a","n","e","l","s"," ","i","n"," ","o","n","e"," ","s","t","r","i","n","g">>, <<<<"s","o","l","a","r","_","p","a","n","e","l","s","_","p","e","r","_","s","t","r","i","n","g">>, <<"p","a","n","e","l","s","_","p","e","r","_","s","t","r","i","n","g">>>>>>,
      <<<<"p","a","r","a","l","l","e","l"," ","s","o","l","a","r"," ","p","a","n","e","l","s">>, <<<<"p","a","r","a","l","l","e","l","_","s","o","l","a","r","_","p","a","n","e","l","s">>, <<"p","a","r","a","l","l","e","l","_","p","a","n","e","l","s">>>>>>,
      <<<<"h","o","w"," ","m","a","n","y"," ","s","o","l","a","r"," ","p","a","n","e","l","s">>, <<<<"s","o","l","a","r","_","p","a","n","e","l","s","_","p","e","r","_","s","t","r","i","n","g">>, <<"p","a","n","e","l","s","_","p","e","r","_","s","t","r","i","n","g">>>>>>,
      <<<<"h","o","w"," ","m","a","n","y"," ","p","a","r","a","l","l","e","l">>, <<<<"p","a","r","a","l","l","e","l","_","s","o","l","a","r","_","p","a","n","e","l","s">>, <<"p","a","r","a","l","l","e","l","_","p","a","n","e","l","s">>>>>>,
      <<<<"j","u","n","c","t","i","o","n"," ","b","o","x">>, <<<<"a","r","r","a","y","_","j","u","n","c","t","i","o","n","_","b","o","x","e","s">>, <<"j","u","n","c","t","i","o","n","_","b","o","x","e","s">>>>>>,
      <<<<"c","h","a","r","g","e"," ","c","o","n","t","r","o","l","l","e","r"," ","t","y","p","e">>, <<<<"c","h","a","r","g","e","_","c","o","n","t","r","o","l","l","e","r","_","t","y","p","e">>, <<"c","o","n","t","r","o","l","l","e","r","_","t","y","p","e">>>>>>,
      <<<<"m","p","p","t"," ","o","r"," ","p","w","m">>, <<<<"c","h","a","r","g","e","_","c","o","n","t","r","o","l","l","e","r","_","t","y","p","e">>, <<"c","o","n","t","r","o","l","l","e","r","_","t","y","p","e">>>>>>,
      <<<<"h","a","r","d","-","w","i","r","e","d"," ","s","i","g","n","a","l","s">>, <<<<"h","a","r","d","w","i","r","e","d","_","s","i","g","n","a","l","s">>, <<"s","i","g","n","a","l","s","_","t","o","_","r","t","u">>>>>>,
      <<<<"h","a","r","d","w","i","r","e","d"," ","s","i","g","n","a","l","s">>, <<<<"h","a","r","d","w","i","r","e","d","_","s","i","g","n","a","l","s">>, <<"s","i","g","n","a","l","s","_","t","o","_","r","t","u">>>>>>,
      <<<<"o","t","h","e","r"," ","s","i","g","n","a","l","s">>, <<<<"o","t","h","e","r","_","s","i","g","n","a","l","s">>, <<"o","t","h","e","r","_","a","l","a","r","m","s">>>>>>,
      <<<<"b","a","t","t","e","r","y"," ","b","r","e","a","k","e","r"," ","b","o","x">>, <<<<"b","a","t","t","e","r","y","_","b","r","e","a","k","e","r","_","b","o","x">>, <<"b","r","e","a","k","e","r","_","b","o","x","_","r","e","q","u","i","r","e","d">>>>>>,
      <<<<"b","a","t","t","e","r","y"," ","b","r","e","a","k","e","r"," ","b","o","x","e","s">>, <<<<"n","u","m","_","b","a","t","t","e","r","y","_","b","r","e","a","k","e","r","_","b","o","x","e","s">>, <<"n","u","m","b","e","r","_","o","f","_","b","r","e","a","k","e","r","_","b","o","x","e","s">>>>>>,
      <<<<"b","a","t","t","e","r","y"," ","c","o","n","f","i","g","u","r","a","t","i","o","n">>, <<<<"b","a","t","t","e","r","y","_","c","o","n","f","i","g">>, <<"b","a","t","t","e","r","i","e","s","_","c","o","n","f","i","g">>>>>>,
      <<<<"b","a","t","t","e","r","y"," ","t","y","p","e">>, <<<<"b","a","t","t","e","r","y","_","t","y","p","e">>>>>>,
      <<<<"n","i","c","d"," ","o","r"," ","v","r","l","a">>, <<<<"b","a","t","t","e","r","y","_","t","y","p","e">>>>>>,
      <<<<"c","e","l","l","s"," ","i","n"," ","s","e","r","i","e","s">>, <<<<"c","e","l","l","s","_","i","n","_","s","e","r","i","e","s">>, <<"n","u","m","b","e","r","_","o","f","_","c","e","l","l","s">>>>>>,
      <<<<"s","t","r","i","n","g","s"," ","o","f"," ","b","a","t","t","e","r","i","e","s">>, <<<<"b","a","t","t","e","r","y","_","s","t","r","i","n","g","s">>, <<"n","u","m","b","e","r","_","o","f","_","s","t","r","i","n","g","s">>>>>>,
      <<<<"h","o","w"," ","m","a","n","y"," ","s","t","r","i","n","g","s">>, <<<<"b","a","t","t","e","r","y","_","s","t","r","i","n","g","s">>, <<"n","u","m","b","e","r","_","o","f","_","s","t","r","i","n","g","s">>>>>>,
      <<<<"e","n","c","l","o","s","u","r","e"," ","i","p">>, <<<<"b","a","t","t","e","r","y","_","e","n","c","l","o","s","u","r","e","_","r","a","t","i","n","g">>, <<"e","n","c","l","o","s","u","r","e","_","r","a","t","i","n","g">>>>>>,
      <<<<"n","e","m","a"," ","r","a","t","i","n","g">>, <<<<"b","a","t","t","e","r","y","_","e","n","c","l","o","s","u","r","e","_","r","a","t","i","n","g">>, <<"e","n","c","l","o","s","u","r","e","_","r","a","t","i","n","g">>>>>>,
      <<<<"b","a","c","k","-","u","p">>, <<<<"r","e","q","u","i","r","e","d","_","b","a","c","k","u","p">>, <<"b","a","c","k","u","p","_","a","u","t","o","n","o","m","y">>>>>>,
      <<<<"a","u","t","o","n","o","m","y">>, <<<<"r","e","q","u","i","r","e","d","_","b","a","c","k","u","p">>, <<"b","a","c","k","u","p","_","a","u","t","o","n","o","m","y">>>>>>,
      <<<<"p","a","n","e","l"," ","b","o","a","r","d">>, <<<<"p","a","n","e","l","_","b","o","a","r","d","_","r","e","q","u","i","r","e","d">>, <<"l","o","s","_","r","e","q","u","i","r","e","d">>>>>>,
      <<<<"d","b"," ","/"," ","l","o","s">>, <<<<"p","a","n","e","l","_","b","o","a","r","d","_","r","e","q","u","i","r","e","d">>, <<"l","o","s","_","r","e","q","u","i","r","e","d">>>>>>,
      <<<<"l","o","s"," ","r","e","q","u","i","r","e","d">>, <<<<"p","a","n","e","l","_","b","o","a","r","d","_","r","e","q","u","i","r","e","d">>, <<"l","o","s","_","r","e","q","u","i","r","e","d">>>>>>,
      <<<<"e","n","c","l","o","s","u","r","e"," ","r","a","t","i","n","g"," ","o","f"," ","l","o","s">>, <<<<"l","o","s","_","e","n","c","l","o","s","u","r","e","_","r","a","t","i","n","g">>, <<"p","o","w","e","r","_","p","a","n","e","l","_","r","a","t","i","n","g">>>>>>,
      <<<<"p","o","w","e","r"," ","p","a","n","e","l">>, <<<<"l","o","s","_","e","n","c","l","o","s","u","r","e","_","r","a","t","i","n","g">>, <<"p","o","w","e","r","_","p","a","n","e","l","_","r","a","t","i","n","g">>>>>>,
      <<<<"b","r","e","a","k","e","r","s"," ","a","n","d"," ","r","a","t","i","n","g","s">>, <<<<"b","r","e","a","k","e","r","_","l","i","s","t">>, <<"n","u","m","b","e","r","_","o","f","_","b","r","e","a","k","e","r","s">>>>>>,
      <<<<"n","u","m","b","e","r"," ","o","f"," ","b","r","e","a","k","e","r","s">>, <<<<"b","r","e","a","k","e","r","_","l","i","s","t">>, <<"n","u","m","b","e","r","_","o","f","_","b","r","e","a","k","e","r","s">>>>>>,
      <<<<"n","o","t","e","s"," ","f","o","r"," ","p","v">>, <<<<"p","v","_","n","o","t","e","s">>, <<"c","h","a","r","g","e","_","c","o","n","t","r","o","l","l","e","r","_","n","o","t","e","s">>>>>>,
      <<<<"n","o","t","e","s"," ","f","o","r"," ","b","a","t","t","e","r","i","e","s">>, <<<<"b","a","t","t","e","r","y","_","n","o","t","e","s">>, <<"e","n","c","l","o","s","u","r","e","_","n","o","t","e","s">>>>>>,
      <<<<"o","t","h","e","r"," ","e","q","u","i","p","m","e","n","t">>, <<<<"o","t","h","e","r","_","e","q","u","i","p","m","e","n","t">>, <<"a","d","d","i","t","i","o","n","a","l","_","e","q","u","i","p","m","e","n","t">>>>>>,
      <<<<"c","r","i","t","i","c","a","l"," ","p","o","i","n","t","s">>, <<<<"c","r","i","t","i","c","a","l","_","p","o","i","n","t","s">>, <<"o","t","h","e","r","_","n","o","t","e","s">>>>>>
   >>

\* The items of a dict that a display evaluates to: a repeated key keeps the
\* position of its first occurrence and takes the value of its last one.
DictOfDisplay(display) ==
    LET first == {i \in DOMAIN display :
                     \A j \in 1..(i - 1) : display[j][1] # display[i][1]}
        last(i) == Max({j \in DOMAIN display : display[j][1] = display[i][1]})
        nth(k) == CHOOSE i \in first : Cardinality({j \in first : j < i}) = k - 1
    IN  [k \in 1..Cardinality(first) |->
            <<display[nth(k)][1], display[last(nth(k))][2]>>]

\* FIELD_MAPPINGS.items() if a repeated key of the display kept the value of
\* its first declaration.
FIELD_MAPPINGS_FirstWins ==
    LET display == FieldMappingsDisplay
        first == {i \in DOMAIN display :
                     \A j \in 1..(i - 1) : display[j][1] # display[i][1]}
        nth(k) == CHOOSE i \in first : Cardinality({j \in first : j < i}) = k - 1
    IN  [k \in 1..Cardinality(first) |-> display[nth(k)]]

\* FIELD_MAPPINGS.items(): the value of DictOfDisplay(FieldMappingsDisplay).
FIELD_MAPPINGS ==
   <<
      <<<<"p","r","o","j","e","c","t"," ","n","a","m","e">>, <<<<"p","r","o","j","e","c","t","_","n","a","m","e">>, <<"p","r","o","j","e","c","t">>>>>>,
      <<<<"e","n","g","i","n","e","e","r","i","n","g"," ","c","o","n","s","u","l","t","a","n","t">>, <<<<"e","n","g","i","n","e","e","r","i","n","g","_","c","o","n","s","u","l","t","a","n","t">>, <<"c","o","n","s","u","l","t","a","n","t">>>>>>,
      <<<<"n","a","m","e"," ","o","f"," ","t","h","e"," ","e","p","c">>, <<<<"e","p","c">>, <<"e","p","c","_","n","a","m","e">>, <<"n","a","m","e","_","o","f","_","e","p","c">>>>>>,
      <<<<"9","c","o","m"," ","n","u","m","b","e","r","s">>, <<<<"9","c","o","m","_","n","u","m","b","e","r","s">>, <<"e","q","u","i","p","m","e","n","t","_","l","i","s","t">>, <<"a","p","p","l","i","c","a","b","l","e","_","9","c","o","m">>>>>>,
      <<<<"s","t","a","n","d","a","r","d","s">>, <<<<"s","t","a","n","d","a","r","d","s">>, <<"a","p","p","l","i","c","a","b","l","e","_","s","t","a","n","d","a","r","d","s">>, <<"l","i","s","t","_","o","f","_","s","t","a","n","d","a","r","d","s">>>>>>,
      <<<<"n","u","m","b","e","r"," ","o","f"," ","s","y","s","t","e","m","s">>, <<<<"n","u","m","b","e","r","_","o","f","_","s","y","s","t","e","m","s">>, <<"s","y","s","t","e","m","s","_","c","o","u","n","t">>>>>>,
      <<<<"w","a","t","t","a","g","e">>, <<<<"w","a","t","t","a","g","e">>, <<"l","o","a","d","_","v","a","l","u","e">>, <<"l","o","a","d">>, <<"w","a","t","t","a","g","e","_","l","o","a","d">>>>>>,
      <<<<"l","o","a","d"," ","v","a","l","u","e">>, <<<<"w","a","t","t","a","g","e">>, <<"l","o","a","d","_","v","a","l","u","e">>, <<"l","o","a","d">>>>>>,
      <<<<"n","u","m","b","e","r"," ","o","f"," ","s","i","t","e","s">>, <<<<"n","u","m","b","e","r","_","o","f","_","s","i","t","e","s">>, <<"s","i","t","e","s","_","c","o","u","n","t">>, <<"n","u","m","b","e","r","s","_","o","f","_","s","i","t","e","s">>>>>>,
      <<<<"b","a","t","t","e","r","y"," ","t","y","p","e">>, <<<<"b","a","t","t","e","r","y","_","t","y","p","e">>>>>>,
      <<<<"b","a","t","t","e","r","y"," ","a","u","t","o","n","o","m","y">>, <<<<"b","a","t","t","e","r","y","_","a","u","t","o","n","o","m","y">>, <<"a","u","t","o","n","o","m","y">>, <<"r","e","q","u","i","r","e","d","_","b","a","t","t","e","r","y","_","a","u","t","o","n","o","m","y">>>>>>,
      <<<<"b","a","t","t","e","r","y"," ","c","a","p","a","c","i","t","y">>, <<<<"b","a","t","t","e","r","y","_","c","a","p","a","c","i","t","y">>, <<"c","a","p","a","c","i","t","y">>, <<"r","e","q","u","i","r","e","d","_","b","a","t","t","e","r","y","_","c","a","p","a","c","i","t","y">>>>>>,
      <<<<"e","n","v","i","r","o","n","m","e","n","t","a","l">>, <<<<"e","n","v","i","r","o","n","m","e","n","t","a","l","_","c","o","n","d","i","t","i","o","n","s">>, <<"e","n","v","i","r","o","n","m","e","n","t">>>>>>,
      <<<<"t","e","m","p","e","r","a","t","u","r","e">>, <<<<"t","e","m","p","e","r","a","t","u","r","e","_","r","a","n","g","e">>, <<"t","e","m","p","e","r","a","t","u","r","e">>>>>>,
      <<<<"s","u","p","p","o","r","t"," ","s","t","r","u","c","t","u","r","e">>, <<<<"s","u","p","p","o","r","t","_","s","t","r","u","c","t","u","r","e">>, <<"s","t","r","u","c","t","u","r","e">>>>>>,
      <<<<"s","p","e","c","i","f","i","c","a","t","i","o","n","s">>, <<<<"o","t","h","e","r","_","s","p","e","c","i","f","i","c","a","t","i","o","n","s">>, <<"s","p","e","c","i","f","i","c","a","t","i","o","n","s">>, <<"o","t","h","e","r","_","e","q","u","i","p","m","e","n","t">>>>>>,
      <<<<"o","t","h","e","r"," ","s","e","r","v","i","c","e">>, <<<<"o","t","h","e","r","_","s","e","r","v","i","c","e","s">>, <<"s","e","r","v","i","c","e","s">>>>>>,
      <<<<"s","o","l","a","r"," ","p","a","n","e","l","s"," ","c","o","n","f","i","g">>, <<<<"s","o","l","a","r","_","p","a","n","e","l","s","_","c","o","n","f","i","g">>, <<"s","o","l","a","r","_","c","o","n","f","i","g">>>>>>,
      <<<<"c","h","a","r","g","e"," ","c","o","n","t","r","o","l","l","e","r","s"," ","c","o","n","f","i","g">>, <<<<"c","h","a","r","g","e","_","c","o","n","t","r","o","l","l","e","r","s","_","c","o","n","f","i","g">>, <<"c","h","a","r","g","e","_","c","o","n","t","r","o","l","l","e","r","_","c","o","n","f","i","g">>>>>>,
      <<<<"b","a","t","t","e","r","i","e","s"," ","c","o","n","f","i","g">>, <<<<"b","a","t","t","e","r","i","e","s","_","c","o","n","f","i","g">>, <<"b","a","t","t","e","r","y","_","c","o","n","f","i","g">>>>>>,
      <<<<"l","o","a","d","-","l","i","s","t">>, <<<<"l","o","a","d","_","l","i","s","t">>, <<"l","o","a","d","s">>>>>>,
      <<<<"l","o","a","d"," ","l","i","s","t">>, <<<<"l","o","a","d","_","l","i","s","t">>, <<"l","o","a","d","s">>>>>>,
      <<<<"f","u","t","u","r","e"," ","e","x","p","a","n","s","i","o","n">>, <<<<"f","u","t","u","r","e","_","e","x","p","a","n","s","i","o","n","_","f","a","c","t","o","r">>, <<"f","u","t","u","r","e","_","e","x","p","a","n","s","i","o","n">>>>>>,
      <<<<"b","a","t","t","e","r","y"," ","b","a","c","k","-","u","p">>, <<<<"b","a","t","t","e","r","y","_","b","a","c","k","u","p","_","t","i","m","e">>, <<"b","a","c","k","u","p","_","t","i","m","e">>>>>>,
      <<<<"b","a","c","k","-","u","p"," ","t","i","m","e">>, <<<<"b","a","t","t","e","r","y","_","b","a","c","k","u","p","_","t","i","m","e">>, <<"b","a","c","k","u","p","_","t","i","m","e">>>>>>,
      <<<<"a","g","e","i","n","g"," ","f","a","c","t","o","r">>, <<<<"a","g","e","i","n","g","_","f","a","c","t","o","r">>, <<"a","g","i","n","g","_","f","a","c","t","o","r">>>>>>,
      <<<<"d","e","s","i","g","n"," ","f","a","c","t","o","r">>, <<<<"d","e","s","i","g","n","_","f","a","c","t","o","r">>>>>>,
      <<<<"t","e","m","p","e","r","a","t","u","r","e"," ","c","o","m","p","e","n","s","a","t","i","o","n">>, <<<<"t","e","m","p","e","r","a","t","u","r","e","_","c","o","m","p","e","n","s","a","t","i","o","n">>>>>>,
      <<<<"o","t","h","e","r"," ","f","a","c","t","o","r">>, <<<<"o","t","h","e","r","_","b","a","t","t","e","r","y","_","f","a","c","t","o","r","s">>, <<"o","t","h","e","r","_","f","a","c","t","o","r","s">>>>>>,
      <<<<"c","o","m","p","u","t","e","d"," ","r","e","q","u","i","r","e","d"," ","b","a","t","t","e","r","y">>, <<<<"c","o","m","p","u","t","e","d","_","b","a","t","t","e","r","y","_","c","a","p","a","c","i","t","y">>, <<"r","e","q","u","i","r","e","d","_","b","a","t","t","e","r","y","_","c","a","p","a","c","i","t","y">>>>>>,
      <<<<"r","e","q","u","i","r","e","d"," ","b","a","t","t","e","r","y"," ","c","a","p","a","c","i","t","y">>, <<<<"c","o","m","p","u","t","e","d","_","b","a","t","t","e","r","y","_","c","a","p","a","c","i","t","y">>, <<"r","e","q","u","i","r","e","d","_","b","a","t","t","e","r","y","_","c","a","p","a","c","i","t","y">>>>>>,
      <<<<"e","n","d"," ","o","f"," ","d","i","s","c","h","a","r","g","e">>, <<<<"e","n","d","_","o","f","_","d","i","s","c","h","a","r","g","e","_","v","o","l","t","a","g","e">>, <<"e","o","d","_","v","o","l","t","a","g","e">>>>>>,
      <<<<"c","e","l","l","s"," ","i","n"," ","s","e","r","i","e","s">>, <<<<"c","e","l","l","s","_","i","n","_","s","e","r","i","e","s">>, <<"n","u","m","b","e","r","_","o","f","_","c","e","l","l","s">>>>>>,
      <<<<"p","r","o","p","o","s","e","d"," ","b","a","t","t","e","r","y"," ","c","e","l","l">>, <<<<"p","r","o","p","o","s","e","d","_","c","e","l","l","_","c","a","p","a","c","i","t","y">>, <<"p","r","o","p","o","s","e","d","_","c","a","p","a","c","i","t","y">>>>>>,
      <<<<"p","a","r","a","l","l","e","l"," ","s","e","t","s">>, <<<<"p","a","r","a","l","l","e","l","_","s","t","r","i","n","g","s">>, <<"n","u","m","b","e","r","_","o","f","_","p","a","r","a","l","l","e","l">>>>>>,
      <<<<"p","a","r","a","l","l","e","l"," ","s","t","r","i","n","g","s">>, <<<<"p","a","r","a","l","l","e","l","_","s","t","r","i","n","g","s">>, <<"n","u","m","b","e","r","_","o","f","_","p","a","r","a","l","l","e","l">>>>>>,
      <<<<"d","e","r","a","t","i","n","g"," ","f","a","c","t","o","r","s">>, <<<<"d","e","r","a","t","i","n","g","_","f","a","c","t","o","r","s">>, <<"s","o","l","a","r","_","d","e","r","a","t","i","n","g">>>>>>,
      <<<<"s","u","n"," ","h","o","u","r","s">>, <<<<"s","u","n","_","h","o","u","r","s">>, <<"e","f","f","e","c","t","i","v","e","_","s","u","n","_","h","o","u","r","s">>>>>>,
      <<<<"f","u","t","u","r","e"," ","f","a","c","t","o","r">>, <<<<"s","o","l","a","r","_","f","u","t","u","r","e","_","f","a","c","t","o","r">>, <<"f","u","t","u","r","e","_","f","a","c","t","o","r">>>>>>,
      <<<<"f","o","r","m","u","l","a">>, <<<<"s","o","l","a","r","_","s","i","z","i","n","g","_","f","o","r","m","u","l","a">>, <<"s","i","z","i","n","g","_","f","o","r","m","u","l","a">>>>>>,
      <<<<"t","o","t","a","l"," ","d","a","i","l","y"," ","r","e","q","u","i","r","e","d">>, <<<<"t","o","t","a","l","_","d","a","i","l","y","_","a","h">>, <<"d","a","i","l","y","_","r","e","q","u","i","r","e","d","_","a","h">>>>>>,
      <<<<"p","a","n","e","l","s"," ","i","n"," ","o","n","e"," ","s","t","r","i","n","g">>, <<<<"s","o","l","a","r","_","p","a","n","e","l","s","_","p","e","r","_","s","t","r","i","n","g">>, <<"p","a","n","e","l","s","_","p","e","r","_","s","t","r","i","n","g">>>>>>,
      <<<<"p","a","r","a","l","l","e","l"," ","s","o","l","a","r"," ","p","a","n","e","l","s">>, <<<<"p","a","r","a","l","l","e","l","_","s","o","l","a","r","_","p","a","n","e","l","s">>, <<"p","a","r","a","l","l","e","l","_","p","a","n","e","l","s">>>>>>,
      <<<<"h","o","w"," ","m","a","n","y"," ","s","o","l","a","r"," ","p","a","n","e","l","s">>, <<<<"s","o","l","a","r","_","p","a","n","e","l","s","_","p","e","r","_","s","t","r","i","n","g">>, <<"p","a","n","e","l","s","_","p","e","r","_","s","t","r","i","n","g">>>>>>,
      <<<<"h","o","w"," ","m","a","n","y"," ","p","a","r","a","l","l","e","l">>, <<<<"p","a","r","a","l","l","e","l","_","s","o","l","a","r","_","p","a","n","e","l","s">>, <<"p","a","r","a","l","l","e","l","_","p","a","n","e","l","s">>>>>>,
      <<<<"j","u","n","c","t","i","o","n"," ","b","o","x">>, <<<<"a","r","r","a","y","_","j","u","n","c","t","i","o","n","_","b","o","x","e","s">>, <<"j","u","n","c","t","i","o","n","_","b","o","x","e","s">>>>>>,
      <<<<"c","h","a","r","g","e"," ","c","o","n","t","r","o","l","l","e","r"," ","t","y","p","e">>, <<<<"c","h","a","r","g","e","_","c","o","n","t","r","o","l","l","e","r","_","t","y","p","e">>, <<"c","o","n","t","r","o","l","l","e","r","_","t","y","p","e">>>>>>,
      <<<<"m","p","p","t"," ","o","r"," ","p","w","m">>, <<<<"c","h","a","r","g","e","_","c","o","n","t","r","o","l","l","e","r","_","t","y","p","e">>, <<"c","o","n","t","r","o","l","l","e","r","_","t","y","p","e">>>>>>,
      <<<<"h","a","r","d","-","w","i","r","e","d"," ","s","i","g","n","a","l","s">>, <<<<"h","a","r","d","w","i","r","e","d","_","s","i","g","n","a","l","s">>, <<"s","i","g","n","a","l","s","_","t","o","_","r","t","u">>>>>>,
      <<<<"h","a","r","d","w","i","r","e","d"," ","s","i","g","n","a","l","s">>, <<<<"h","a","r","d","w","i","r","e","d","_","s","i","g","n","a","l","s">>, <<"s","i","g","n","a","l","s","_","t","o","_","r","t","u">>>>>>,
      <<<<"o","t","h","e","r"," ","s","i","g","n","a","l","s">>, <<<<"o","t","h","e","r","_","s","i","g","n","a","l","s">>, <<"o","t","h","e","r","_","a","l","a","r","m","s">>>>>>,
      <<<<"b","a","t","t","e","r","y"," ","b","r","e","a","k","e","r"," ","b","o","x">>, <<<<"b","a","t","t","e","r","y","_","b","r","e","a","k","e","r","_","b","o","x">>, <<"b","r","e","a","k","e","r","_","b","o","x","_","r","e","q","u","i","r","e","d">>>>>>,
      <<<<"b","a","t","t","e","r","y"," ","b","r","e","a","k","e","r"," ","b","o","x","e","s">>, <<<<"n","u","m","_","b","a","t","t","e","r","y","_","b","r","e","a","k","e","r","_","b","o","x","e","s">>, <<"n","u","m","b","e","r","_","o","f","_","b","r","e","a","k","e","r","_","b","o","x","e","s">>>>>>,
      <<<<"b","a","t","t","e","r","y"," ","c","o","n","f","i","g","u","r","a","t","i","o","n">>, <<<<"b","a","t","t","e","r","y","_","c","o","n","f","i","g">>, <<"b","a","t","t","e","r","i","e","s","_","c","o","n","f","i","g">>>>>>,
      <<<<"n","i","c","d"," ","o","r"," ","v","r","l","a">>, <<<<"b","a","t","t","e","r","y","_","t","y","p","e">>>>>>,
      <<<<"s","t","r","i","n","g","s"," ","o","f"," ","b","a","t","t","e","r","i","e","s">>, <<<<"b","a","t","t","e","r","y","_","s","t","r","i","n","g","s">>, <<"n","u","m","b","e","r","_","o","f","_","s","t","r","i","n","g","s">>>>>>,
      <<<<"h","o","w"," ","m","a","n","y"," ","s","t","r","i","n","g","s">>, <<<<"b","a","t","t","e","r","y","_","s","t","r","i","n","g","s">>, <<"n","u","m","b","e","r","_","o","f","_","s","t","r","i","n","g","s">>>>>>,
      <<<<"e","n","c","l","o","s","u","r","e"," ","i","p">>, <<<<"b","a","t","t","e","r","y","_","e","n","c","l","o","s","u","r","e","_","r","a","t","i","n","g">>, <<"e","n","c","l","o","s","u","r","e","_","r","a","t","i","n","g">>>>>>,
      <<<<"n","e","m","a"," ","r","a","t","i","n","g">>, <<<<"b","a","t","t","e","r","y","_","e","n","c","l","o","s","u","r","e","_","r","a","t","i","n","g">>, <<"e","n","c","l","o","s","u","r","e","_","r","a","t","i","n","g">>>>>>,
      <<<<"b","a","c","k","-","u","p">>, <<<<"r","e","q","u","i","r","e","d","_","b","a","c","k","u","p">>, <<"b","a","c","k","u","p","_","a","u","t","o","n","o","m","y">>>>>>,
      <<<<"a","u","t","o","n","o","m","y">>, <<<<"r","e","q","u","i","r","e","d","_","b","a","c","k","u","p">>, <<"b","a","c","k","u","p","_","a","u","t","o","n","o","m","y">>>>>>,
      <<<<"p","a","n","e","l"," ","b","o","a","r","d">>, <<<<"p","a","n","e","l","_","b","o","a","r","d","_","r","e","q","u","i","r","e","d">>, <<"l","o","s","_","r","e","q","u","i","r","e","d">>>>>>,
      <<<<"d","b"," ","/"," ","l","o","s">>, <<<<"p","a","n","e","l","_","b","o","a","r","d","_","r","e","q","u","i","r","e","d">>, <<"l","o","s","_","r","e","q","u","i","r","e","d">>>>>>,
      <<<<"l","o","s"," ","r","e","q","u","i","r","e","d">>, <<<<"p","a","n","e","l","_","b","o","a","r","d","_","r","e","q","u","i","r","e","d">>, <<"l","o","s","_","r","e","q","u","i","r","e","d">>>>>>,
      <<<<"e","n","c","l","o","s","u","r","e"," ","r","a","t","i","n","g"," ","o","f"," ","l","o","s">>, <<<<"l","o","s","_","e","n","c","l","o","s","u","r","e","_","r","a","t","i","n","g">>, <<"p","o","w","e","r","_","p","a","n","e","l","_","r","a","t","i","n","g">>>>>>,
      <<<<"p","o","w","e","r"," ","p","a","n","e","l">>, <<<<"l","o","s","_","e","n","c","l","o","s","u","r","e","_","r","a","t","i","n","g">>, <<"p","o","w","e","r","_","p","a","n","e","l","_","r","a","t","i","n","g">>>>>>,
      <<<<"b","r","e","a","k","e","r","s"," ","a","n","d"," ","r","a","t","i","n","g","s">>, <<<<"b","r","e","a","k","e","r","_","l","i","s","t">>, <<"n","u","m","b","e","r","_","o","f","_","b","r","e","a","k","e","r","s">>>>>>,
      <<<<"n","u","m","b","e","r"," ","o","f"," ","b","r","e","a","k","e","r","s">>, <<<<"b","r","e","a","k","e","r","_","l","i","s","t">>, <<"n","u","m","b","e","r","_","o","f","_","b","r","e","a","k","e","r","s">>>>>>,
      <<<<"n","o","t","e","s"," ","f","o","r"," ","p","v">>, <<<<"p","v","_","n","o","t","e","s">>, <<"c","h","a","r","g","e","_","c","o","n","t","r","o","l","l","e","r","_","n","o","t","e","s">>>>>>,
      <<<<"n","o","t","e","s"," ","f","o","r"," ","b","a","t","t","e","r","i","e","s">>, <<<<"b","a","t","t","e","r","y","_","n","o","t","e","s">>, <<"e","n","c","l","o","s","u","r","e","_","n","o","t","e","s">>>>>>,
      <<<<"o","t","h","e","r"," ","e","q","u","i","p","m","e","n","t">>, <<<<"o","t","h","e","r","_","e","q","u","i","p","m","e","n","t">>, <<"a","d","d","i","t","i","o","n","a","l","_","e","q","u","i","p","m","e","n","t">>>>>>,
      <<<<"c","r","i","t","i","c","a","l"," ","p","o","i","n","t","s">>, <<<<"c","r","i","t","i","c","a","l","_","p","o","i","n","t","s">>, <<"o","t","h","e","r","_","n","o","t","e","s">>>>>>
   >>

----------------------------------------------------------------------------
(* normalize_key and find_matching_data_key                                *)

\* Variant of normalize_key that strips before it replaces.
normalize_key_StripFirst(key) ==
    Replace(Replace(Strip(Lower(key)), "_", " "), "-", " ")

\* Variant of normalize_key that leaves hyphens in place.
normalize_key_NoHyphen(key) == Strip(Replace(Lower(key), "_", " "))

normalize_key(key) == Strip(Replace(Replace(Lower(key), "_", " "), "-", " "))

\* "Direct match": the positions of the keys the loop would return.
DirectHit(template_lower, keys) ==
    {i \in DOMAIN keys : normalize_key(keys[i]) = template_lower}

\* "Partial match": the positions of the keys the loop would return.
PartialHit(template_lower, keys) ==
    {i \in DOMAIN keys :
        \E key_normalized \in {normalize_key(keys[i])} :
            \/ IsSubstring(key_normalized, template_lower)
            \/ IsSubstring(template_lower, key_normalized)}

\* The test of the innermost loop of "Check predefined mappings".
MappingHit(possible_key, key) ==
    \E key_normalized \in {normalize_key(key)} :
        \/ key_normalized = possible_key
        \/ IsSubstring(possible_key, key_normalized)

\* "Check predefined mappings": the position of the key the loops return,
\* or 0: patterns in dict order, then the candidate spellings in list order,
\* then the keys in data_keys order.
MappingHitC(table, keys, p, c) ==
    {k \in DOMAIN keys : MappingHit(table[p][2][c], keys[k])}
MappingHitP(table, keys, p) ==
    {c \in DOMAIN table[p][2] : MappingHitC(table, keys, p, c) # {}}
MappingPatterns(table, template_lower, keys) ==
    {p \in DOMAIN table :
        IsSubstring(table[p][1], template_lower) /\ MappingHitP(table, keys, p) # {}}
\* MappingFound with the keys in the outermost loop: the first key in
\* data_keys order that a candidate spelling of an applicable pattern reaches.
MappingFound_KeysFirst(table, template_lower, keys) ==
    With(MappingPatterns(table, template_lower, keys), LAMBDA pats :
        IF pats = {} THEN 0
        ELSE Min(UNION {UNION {MappingHitC(table, keys, p, c) :
                                   c \in DOMAIN table[p][2]} : p \in pats}))
MappingFound(table, template_lower, keys) ==
    With(MappingPatterns(table, template_lower, keys), LAMBDA pats :
        IF pats = {} THEN 0
        ELSE With(Min(pats), LAMBDA p :
                 With(Min(MappingHitP(table, keys, p)), LAMBDA c :
                     Min(MappingHitC(table, keys, p, c)))))

\* The first position of a set of positions, or 0.
FirstOf(hit) == With(hit, LAMBDA h : IF h = {} THEN 0 ELSE Min(h))

\* MatchNormalized without its "Direct match" loop.
MatchNormalized_NoDirect(template_lower, keys) ==
    With(FirstOf(PartialHit(template_lower, keys)), LAMBDA partial :
        IF partial # 0 THEN [key |-> PyStr(keys[partial]), line |-> 113]
        ELSE With(MappingFound(FIELD_MAPPINGS, template_lower, keys), LAMBDA mapped :
                 IF mapped # 0 THEN [key |-> PyStr(keys[mapped]), line |-> 121]
                 ELSE [key |-> PyNone, line |-> 123]))

\* MatchNormalized with the mappings checked before the partial match.
MatchNormalized_MappingsFirst(template_lower, keys) ==
    With(FirstOf(DirectHit(template_lower, keys)), LAMBDA direct :
        IF direct # 0 THEN [key |-> PyStr(keys[direct]), line |-> 107]
        ELSE With(MappingFound(FIELD_MAPPINGS, template_lower, keys), LAMBDA mapped :
                 IF mapped # 0 THEN [key |-> PyStr(keys[mapped]), line |-> 121]
                 ELSE With(FirstOf(PartialHit(template_lower, keys)), LAMBDA partial :
                          IF partial # 0
                          THEN [key |-> PyStr(keys[partial]), line |-> 113]
                          ELSE [key |-> PyNone, line |-> 123])))

\* MatchNormalized with the "Partial match" loop returning the last key that
\* matches instead of the first.
MatchNormalized_LastPartial(template_lower, keys) ==
    With(FirstOf(DirectHit(template_lower, keys)), LAMBDA direct :
        IF direct # 0 THEN [key |-> PyStr(keys[direct]), line |-> 107]
        ELSE With(PartialHit(template_lower, keys), LAMBDA partial :
                 IF partial # {}
                 THEN [key |-> PyStr(keys[Max(partial)]), line |-> 113]
                 ELSE With(MappingFound(FIELD_MAPPINGS, template_lower, keys),
                           LAMBDA mapped :
                               IF mapped # 0
                               THEN [key |-> PyStr(keys[mapped]), line |-> 121]
                               ELSE [key |-> PyNone, line |-> 123])))

\* The three loops on the normalised label: the value returned and the line
\* of the return statement that returns it.
MatchNormalized(template_lower, keys) ==
    With(FirstOf(DirectHit(template_lower, keys)), LAMBDA direct :
        IF direct # 0 THEN [key |-> PyStr(keys[direct]), line |-> 107]
        ELSE With(FirstOf(PartialHit(template_lower, keys)), LAMBDA partial :
                 IF partial # 0 THEN [key |-> PyStr(keys[partial]), line |-> 113]
                 ELSE With(MappingFound(FIELD_MAPPINGS, template_lower, keys),
                           LAMBDA mapped :
                               IF mapped # 0
                               THEN [key |-> PyStr(keys[mapped]), line |-> 121]
                               ELSE [key |-> PyNone, line |-> 123])))

find_matching_data_key(field, keys) ==
    With(normalize_key(field), LAMBDA template_lower :
        With(keys, LAMBDA ks : MatchNormalized(template_lower, ks)))

----------------------------------------------------------------------------
(* The worksheet (openpyxl)                                                *)

\* A worksheet is its valued cells, [<<row, column>> -> value], with the
\* largest row and column of the cells it holds.  openpyxl holds a cell once
\* ws.cell has been asked for it, also while its value is None; a cell that
\* has no value reads None.
EmptySheet == [cells |-> [rc \in {} |-> PyNone], max_row |-> 1, max_column |-> 1]

CellValue(sheet, row, col) ==
    IF <<row, col>> \in DOMAIN sheet.cells THEN sheet.cells[<<row, col>>] ELSE PyNone

\* ws.cell(row, column) for the cells at rows x cols: they are held afterwards.
Touch(sheet, rows, cols) ==
    IF rows = {} \/ cols = {} THEN sheet
    ELSE [cells |-> sheet.cells,
          max_row |-> Max({sheet.max_row} \cup rows),
          max_column |-> Max({sheet.max_column} \cup cols)]

\* ws.cell(row, column, value): the cell is held afterwards, and takes the
\* value unless the value is None.
SetCell(sheet, row, col, value) ==
    LET held == Touch(sheet, {row}, {col})
    IN  IF value = PyNone THEN held
        ELSE [cells |-> [rc \in DOMAIN sheet.cells \cup {<<row, col>>} |->
                            IF rc = <<row, col>> THEN value ELSE sheet.cells[rc]],
              max_row |-> held.max_row,
              max_column |-> held.max_column]

\* ws.max_row and ws.max_column
MaxRowOf(sheet) == sheet.max_row
MaxColumnOf(sheet) == sheet.max_column

----------------------------------------------------------------------------
(* str() and repr() of a value                                             *)

Digits == <<"0","1","2","3","4","5","6","7","8","9">>

RECURSIVE NatStr(_)
NatStr(n) == IF n < 10 THEN <<Digits[n + 1]>>
             ELSE NatStr(n \div 10) \o <<Digits[(n % 10) + 1]>>

IntStr(n) == IF n < 0 THEN <<"-">> \o NatStr(-n) ELSE NatStr(n)

\* sep.join(parts) for a sequence of strings
RECURSIVE JoinValue(_, _)
JoinValue(sep, parts) ==
    IF parts = <<>> THEN <<>>
    ELSE IF Len(parts) = 1 THEN parts[1]
    ELSE With(Tail(parts), LAMBDA rest : parts[1] \o sep \o JoinValue(sep, rest))
Join(sep, parts) == With(parts, LAMBDA p : JoinValue(sep, p))

CommaSpace == <<",", " ">>
ColonSpace == <<":", " ">>
BarSep == <<" ", "|", " ">>
NoneStr == <<"N", "o", "n", "e">>

\* repr(v); the strings of the model hold no quote and no backslash.
RECURSIVE Repr(_)
Repr(v) ==
    CASE v.t = "none" -> NoneStr
      [] v.t = "str"  -> <<"'">> \o v.s \o <<"'">>
      [] v.t = "int"  -> IntStr(v.n)
      [] v.t = "list" ->
            <<"[">> \o Join(CommaSpace, [i \in DOMAIN v.l |-> Repr(v.l[i])]) \o <<"]">>
      [] OTHER ->
            <<"{">> \o Join(CommaSpace,
                           [i \in DOMAIN v.l |->
                               (<<"'">> \o v.l[i][1] \o <<"'">>) \o ColonSpace
                                   \o Repr(v.l[i][2])])
                  \o <<"}">>

\* str(v)
StrOf(v) == IF v.t = "str" THEN v.s ELSE Repr(v)

----------------------------------------------------------------------------
(* detect_template_format                                                  *)

HeaderScanStop == 30     \* range(1, 30)
VerticalScanStop == 25   \* range(1, min(25, ws.max_row + 1))
LabelMinLen == 5         \* len(str(a_val)) > 5
VerticalMinLabels == 3   \* col_a_labels >= 3

ItemWord == <<"i","t","e","m">>
QuestionWord == <<"q","u","e","s","t","i","o","n">>
QuestionMark == <<"?">>

\* Variant of IsMultiColumnHeader that compares column A without lower().
IsMultiColumnHeader_CaseSensitive(sheet, row_idx) ==
    \E cell_a \in {CellValue(sheet, row_idx, 1)},
       cell_b \in {CellValue(sheet, row_idx, 2)},
       cell_c \in {CellValue(sheet, row_idx, 3)} :
        /\ Truthy(cell_a) /\ Truthy(cell_b)
        /\ \E a_str \in {StrOf(cell_a)} :
               IsSubstring(ItemWord, a_str) \/ IsSubstring(QuestionWord, a_str)
        /\ Truthy(cell_b) /\ Truthy(cell_c)

\* The test of the multi-column loop at one row.
IsMultiColumnHeader(sheet, row_idx) ==
    \E cell_a \in {CellValue(sheet, row_idx, 1)},
       cell_b \in {CellValue(sheet, row_idx, 2)},
       cell_c \in {CellValue(sheet, row_idx, 3)} :
        /\ Truthy(cell_a) /\ Truthy(cell_b)
        /\ \E a_str \in {Lower(StrOf(cell_a))} :
               IsSubstring(ItemWord, a_str) \/ IsSubstring(QuestionWord, a_str)
        /\ Truthy(cell_b) /\ Truthy(cell_c)

\* Variant of IsQuestionLabel that tests len(str(a_val)) >= 5.
IsQuestionLabel_FiveLong(sheet, row) ==
    \E a_val \in {CellValue(sheet, row, 1)} :
        /\ Truthy(a_val)
        /\ a_val.t = "str"
        /\ Len(StrOf(a_val)) >= LabelMinLen
        /\ IsSubstring(QuestionMark, StrOf(a_val))

\* The test of the vertical loop at one row.
IsQuestionLabel(sheet, row) ==
    \E a_val \in {CellValue(sheet, row, 1)} :
        /\ Truthy(a_val)
        /\ a_val.t = "str"
        /\ Len(StrOf(a_val)) > LabelMinLen
        /\ IsSubstring(QuestionMark, StrOf(a_val))

\* Variant of DetectVertical that tests col_a_labels > 3.
DetectVertical_MoreThanThree(scanned) ==
    With(Cardinality({r \in 1..(Min({VerticalScanStop, MaxRowOf(scanned) + 1}) - 1) :
                         IsQuestionLabel(scanned, r)}),
         LAMBDA col_a_labels :
             IF col_a_labels > VerticalMinLabels
             THEN [format |-> "vertical", header_row |-> 0, ws |-> scanned]
             ELSE [format |-> "horizontal", header_row |-> 0, ws |-> scanned])

\* The vertical probe and the fallback, on the worksheet the first loop left.
DetectVertical(scanned) ==
    With(Cardinality({r \in 1..(Min({VerticalScanStop, MaxRowOf(scanned) + 1}) - 1) :
                         IsQuestionLabel(scanned, r)}),
         LAMBDA col_a_labels :
             IF col_a_labels >= VerticalMinLabels
             THEN [format |-> "vertical", header_row |-> 0, ws |-> scanned]
             ELSE [format |-> "horizontal", header_row |-> 0, ws |-> scanned])

\* Variant of detect_template_format that runs the vertical probe first.
detect_template_format_VerticalFirst(sheet) ==
    With(DetectVertical(Touch(sheet, 1..(HeaderScanStop - 1), 1..3)), LAMBDA v :
        IF v.format = "vertical" THEN v
        ELSE With({r \in 1..(HeaderScanStop - 1) : IsMultiColumnHeader(sheet, r)},
                  LAMBDA headers :
                      IF headers # {}
                      THEN [format |-> "multi-column", header_row |-> Min(headers),
                            ws |-> Touch(sheet, 1..Min(headers), 1..3)]
                      ELSE v))

\* The result, and the worksheet with the cells the scans created.
detect_template_format(sheet) ==
    With({r \in 1..(HeaderScanStop - 1) : IsMultiColumnHeader(sheet, r)},
         LAMBDA headers :
             IF headers # {}
             THEN [format |-> "multi-column", header_row |-> Min(headers),
                   ws |-> Touch(sheet, 1..Min(headers), 1..3)]
             ELSE DetectVertical(Touch(sheet, 1..(HeaderScanStop - 1), 1..3)))

----------------------------------------------------------------------------
(* dict operations on a value d with d.t = "dict"                          *)

DictHas(d, k) == \E i \in DOMAIN d.l : d.l[i][1] = k

\* d.get(k, default)
DictGet(d, k, default) ==
    IF DictHas(d, k) THEN d.l[CHOOSE i \in DOMAIN d.l : d.l[i][1] = k][2]
    ELSE default

\* list(d.keys())
DictKeys(d) == [i \in DOMAIN d.l |-> d.l[i][1]]

\* d[k] = v
DictSet(d, k, v) ==
    IF DictHas(d, k)
    THEN PyDict([i \in DOMAIN d.l |-> IF d.l[i][1] = k THEN <<k, v>> ELSE d.l[i]])
    ELSE PyDict(Append(d.l, <<k, v>>))

\* sorted(S) for a set of integers
RECURSIVE Sorted(_)
Sorted(S) == IF S = {} THEN <<>> ELSE <<Min(S)>> \o Sorted(S \ {Min(S)})

SystemsKey == <<"s","y","s","t","e","m","s">>
ItemsKey == <<"i","t","e","m","s">>
EquipmentListKey == <<"e","q","u","i","p","m","e","n","t","_","l","i","s","t">>
SiteNameKey == <<"s","i","t","e","_","n","a","m","e">>
SystemPrefix == <<"S","y","s","t","e","m","_">>
Newline == <<"\n">>

----------------------------------------------------------------------------
(* Value formatting                                                        *)

\* ", ".join(str(v) for v in value)
JoinStrs(value) == Join(CommaSpace, [i \in DOMAIN value.l |-> StrOf(value.l[i])])

\* The f"{k}: {v}" parts of a dict, all of them or only those with a truthy v.
RECURSIVE PairParts(_, _)
PairParts(pairs, truthy_only) ==
    IF pairs = <<>> THEN <<>>
    ELSE LET p == pairs[1]
             rest == PairParts(Tail(pairs), truthy_only)
         IN  IF truthy_only /\ ~Truthy(p[2]) THEN rest
             ELSE <<p[1] \o ColonSpace \o StrOf(p[2])>> \o rest

\* "Format complex values" of fill_multicolumn_template.
FormatMultiColumn(value) ==
    CASE value.t = "list" -> PyStr(JoinStrs(value))
      [] value.t = "dict" -> PyStr(Join(CommaSpace, PairParts(value.l, FALSE)))
      [] OTHER -> value

\* Variant of FormatVertical that keeps the falsy entries of a mapping.
FormatVertical_KeepFalsy(value) ==
    CASE value.t = "list" ->
            IF \A i \in DOMAIN value.l : value.l[i].t = "dict"
            THEN PyStr(Join(Newline,
                     [i \in DOMAIN value.l |->
                         Join(BarSep, PairParts(value.l[i].l, FALSE))]))
            ELSE PyStr(JoinStrs(value))
      [] value.t = "dict" -> PyStr(Join(CommaSpace, PairParts(value.l, FALSE)))
      [] OTHER -> value

\* The formatting of fill_vertical_template.
FormatVertical(value) ==
    CASE value.t = "list" ->
            IF \A i \in DOMAIN value.l : value.l[i].t = "dict"
            THEN PyStr(Join(Newline,
                     [i \in DOMAIN value.l |->
                         Join(BarSep, PairParts(value.l[i].l, TRUE))]))
            ELSE PyStr(JoinStrs(value))
      [] value.t = "dict" -> PyStr(Join(CommaSpace, PairParts(value.l, TRUE)))
      [] OTHER -> value

----------------------------------------------------------------------------
(* fill_multicolumn_template                                               *)

ColumnScanStop == 20   \* range(2, min(20, ws.max_column + 1))

\* The columns the header scan reads.
ScannedColumns(sheet) == 2..(Min({ColumnScanStop, MaxColumnOf(sheet) + 1}) - 1)

\* sorted(site_columns.values()): site_columns is keyed by the stripped header
\* text, so of the columns with the same header text the last one remains.
ColIndices(sheet, header) ==
    LET name(c) == Strip(StrOf(CellValue(sheet, header, c)))
    IN  With({c \in ScannedColumns(sheet) : Truthy(CellValue(sheet, header, c))},
             LAMBDA named :
                 Sorted({c \in named : \A c2 \in named : name(c2) = name(c) => c2 <= c}))

\* system.get("site_name", f"System_{i+1}") for the i-th system, i from 1.
AssignedName(systems, i) ==
    DictGet(systems[i], SiteNameKey, PyStr(SystemPrefix \o IntStr(i)))

\* The positions (from 1) of the systems that get a column.
Assigned(systems, col_indices) ==
    1..Min({Len(systems), Len(col_indices)})

\* system_to_col: the names in it, and the column of a name (the column of the
\* last assigned system with that name).
SystemToColHas(systems, col_indices, site_name) ==
    \E i \in Assigned(systems, col_indices) : AssignedName(systems, i) = site_name
SystemToCol(systems, col_indices, site_name) ==
    col_indices[Max({i \in Assigned(systems, col_indices) :
                        AssignedName(systems, i) = site_name})]

\* The header cells rewritten with the assigned names, first system first.
RECURSIVE WriteHeaders(_, _, _, _, _)
WriteHeaders(sheet, header, systems, col_indices, i) ==
    IF i \notin Assigned(systems, col_indices) THEN sheet
    ELSE With(SetCell(sheet, header, col_indices[i], AssignedName(systems, i)),
              LAMBDA written : WriteHeaders(written, header, systems, col_indices, i + 1))

\* The body of "for system in systems" for the i-th system.
FillSystemCell(st, row_idx, matching, systems, col_indices, i) ==
    With(DictGet(systems[i], SiteNameKey, PyStr(<<>>)), LAMBDA site_name :
        IF SystemToColHas(systems, col_indices, site_name)
        THEN [ws |-> SetCell(st.ws, row_idx,
                             SystemToCol(systems, col_indices, site_name),
                             FormatMultiColumn(DictGet(systems[i], matching, PyStr(<<>>)))),
              filled |-> st.filled + 1]
        ELSE st)

\* "Fill each system's value in its column" for one row, from system i on.
RECURSIVE FillRowSystems(_, _, _, _, _, _)
FillRowSystems(st, row_idx, matching, systems, col_indices, i) ==
    IF i > Len(systems) THEN st
    ELSE With(FillSystemCell(st, row_idx, matching, systems, col_indices, i),
              LAMBDA next :
                  FillRowSystems(next, row_idx, matching, systems, col_indices, i + 1))

\* The body of "for row_idx in range(header_row + 1, ws.max_row + 1)".
FillRow(st, row_idx, systems, col_indices) ==
    With(CellValue(st.ws, row_idx, 1), LAMBDA label :
        With([ws |-> Touch(st.ws, {row_idx}, {1}), filled |-> st.filled], LAMBDA read :
            IF ~Truthy(label) THEN read
            ELSE With(find_matching_data_key(StrOf(label), DictKeys(systems[1])).key,
                      LAMBDA matching_k :
                          IF ~Truthy(matching_k) THEN read
                          ELSE FillRowSystems(read, row_idx, matching_k.s, systems,
                                              col_indices, 1))))

\* "Fill data row by row", from row_idx up to last_row.
RECURSIVE FillRows(_, _, _, _, _)
FillRows(st, row_idx, last_row, systems, col_indices) ==
    IF row_idx > last_row THEN st
    ELSE With(FillRow(st, row_idx, systems, col_indices), LAMBDA next :
             FillRows(next, row_idx + 1, last_row, systems, col_indices))

\* The call after the early return, on a non-empty systems list.
FillSystems(sheet, systems, header) ==
    With(ColIndices(sheet, header), LAMBDA col_indices :
        With(WriteHeaders(Touch(sheet, {header}, ScannedColumns(sheet)), header,
                          systems, col_indices, 1),
             LAMBDA headed :
                 FillRows([ws |-> headed, filled |-> 0], header + 1, MaxRowOf(headed),
                          systems, col_indices)))

\* Variant of fill_multicolumn_template that takes a data mapping without
\* "systems" as the one system.
fill_multicolumn_template_DataAsSystem(sheet, d, header) ==
    With(DictGet(d, SystemsKey, PyList(<<d>>)), LAMBDA systems :
        IF ~Truthy(systems) THEN [ws |-> sheet, filled |-> 0]
        ELSE FillSystems(sheet, systems.l, header))

\* The worksheet after the call and the returned count; d is a dict whose
\* "systems", when present, is a list of dicts.
fill_multicolumn_template(sheet, d, header) ==
    With(DictGet(d, SystemsKey, PyList(<<>>)), LAMBDA systems :
        IF ~Truthy(systems) THEN [ws |-> sheet, filled |-> 0]
        ELSE FillSystems(sheet, systems.l, header))

----------------------------------------------------------------------------
(* fill_vertical_template                                                  *)

\* The text of one element of data["items"].
ItemText(item) ==
    IF item.t = "dict" THEN Join(BarSep, PairParts(item.l, TRUE)) ELSE StrOf(item)

\* "Handle nested 'items'": data["equipment_list"] is set.
FoldItems(d) ==
    IF DictHas(d, ItemsKey) /\ DictGet(d, ItemsKey, PyNone).t = "list"
    THEN With(DictGet(d, ItemsKey, PyNone).l, LAMBDA items :
             DictSet(d, EquipmentListKey,
                     PyStr(Join(Newline, [i \in DOMAIN items |-> ItemText(items[i])]))))
    ELSE d

\* Variant of Promote that copies every pair of the first system into d.
RECURSIVE Promote_Overwrite(_, _)
Promote_Overwrite(d, pairs) ==
    IF pairs = <<>> THEN d
    ELSE With(DictSet(d, pairs[1][1], pairs[1][2]),
              LAMBDA next : With(Tail(pairs), LAMBDA rest : Promote_Overwrite(next, rest)))

\* The pairs of the first system copied into d where d has no such key.
RECURSIVE Promote(_, _)
Promote(d, pairs) ==
    IF pairs = <<>> THEN d
    ELSE With(IF DictHas(d, pairs[1][1]) THEN d
              ELSE DictSet(d, pairs[1][1], pairs[1][2]),
              LAMBDA next : With(Tail(pairs), LAMBDA rest : Promote(next, rest)))

\* "Handle nested 'systems'".
PromoteFirstSystem(d) ==
    IF /\ DictHas(d, SystemsKey)
       /\ DictGet(d, SystemsKey, PyNone).t = "list"
       /\ Truthy(DictGet(d, SystemsKey, PyNone))
    THEN Promote(d, DictGet(d, SystemsKey, PyNone).l[1].l)
    ELSE d

\* Variant of FillLabelRow that keeps the earlier content of column B.
FillLabelRow_KeepEarlier(st, row, d, keys) ==
    With(CellValue(st.ws, row, 1), LAMBDA cell_a :
        With([ws |-> Touch(st.ws, {row}, {1}), filled |-> st.filled], LAMBDA read :
            IF ~Truthy(cell_a) \/ cell_a.t # "str" THEN read
            ELSE With(find_matching_data_key(cell_a.s, keys).key, LAMBDA matching_k :
                     IF ~Truthy(matching_k) THEN read
                     ELSE [ws |-> IF CellValue(read.ws, row, 2) # PyNone
                                  THEN Touch(read.ws, {row}, {2})
                                  ELSE SetCell(read.ws, row, 2,
                                           FormatVertical(DictGet(d, matching_k.s,
                                                                  PyStr(<<>>)))),
                           filled |-> read.filled + 1])))

\* Variant of FillLabelRow that blanks column B of an unmatched label and
\* counts the row.
FillLabelRow_BlankUnmatched(st, row, d, keys) ==
    With(CellValue(st.ws, row, 1), LAMBDA cell_a :
        With([ws |-> Touch(st.ws, {row}, {1}), filled |-> st.filled], LAMBDA read :
            IF ~Truthy(cell_a) \/ cell_a.t # "str" THEN read
            ELSE With(find_matching_data_key(cell_a.s, keys).key, LAMBDA matching_k :
                     [ws |-> SetCell(read.ws, row, 2,
                                 IF ~Truthy(matching_k) THEN PyStr(<<>>)
                                 ELSE FormatVertical(DictGet(d, matching_k.s, PyStr(<<>>)))),
                      filled |-> read.filled + 1])))

\* The body of "for row in range(1, ws.max_row + 1)".
FillLabelRow(st, row, d, keys) ==
    With(CellValue(st.ws, row, 1), LAMBDA cell_a :
        With([ws |-> Touch(st.ws, {row}, {1}), filled |-> st.filled], LAMBDA read :
            IF ~Truthy(cell_a) \/ cell_a.t # "str" THEN read
            ELSE With(find_matching_data_key(cell_a.s, keys).key, LAMBDA matching_k :
                     IF ~Truthy(matching_k) THEN read
                     ELSE [ws |-> SetCell(read.ws, row, 2,
                                      FormatVertical(DictGet(d, matching_k.s, PyStr(<<>>)))),
                           filled |-> read.filled + 1])))

\* "Scan rows for labels", from row up to last_row.
RECURSIVE FillLabelRows(_, _, _, _, _)
FillLabelRows(st, row, last_row, d, keys) ==
    IF row > last_row THEN st
    ELSE With(FillLabelRow(st, row, d, keys), LAMBDA next :
             FillLabelRows(next, row + 1, last_row, d, keys))

\* The worksheet and the data after the call and the returned count; d is a
\* dict whose "systems", when a non-empty list, starts with a dict.
fill_vertical_template(sheet, d) ==
    With(PromoteFirstSystem(FoldItems(d)), LAMBDA expanded :
        With(DictKeys(expanded), LAMBDA keys :
            With(FillLabelRows([ws |-> sheet, filled |-> 0], 1, MaxRowOf(sheet),
                               expanded, keys),
                 LAMBDA st : [ws |-> st.ws, data |-> expanded, filled |-> st.filled])))

----------------------------------------------------------------------------
(* Inputs of the matcher                                                   *)

MaxLen == 1     \* longest generated string
MaxKeys == 2    \* longest data_keys list

Alphabet == {"a", "A", "_"}

RECURSIVE StringsUpTo(_)
StringsUpTo(n) ==
    IF n = 0 THEN {<<>>}
    ELSE LET shorter == StringsUpTo(n - 1)
         IN  shorter \cup {Append(s, c) : s \in {x \in shorter : Len(x) = n - 1},
                                          c \in Alphabet}

LabelMpptOrPwm == <<"M","P","P","T"," ","o","r"," ","P","W","M">>
LabelBatteryType == <<"B","a","t","t","e","r","y"," ","T","y","p","e">>
LabelLoadValue == <<"L","o","a","d"," ","V","a","l","u","e">>
LabelUnknown == <<"R","e","m","a","r","k","s">>
LabelValue == <<"V","a","l","u","e">>
KeyChargeControllerType == <<"c","h","a","r","g","e","_","c","o","n","t","r","o","l","l","e","r","_","t","y","p","e">>
KeyBatteryType == <<"b","a","t","t","e","r","y","_","t","y","p","e">>
KeyLoad == <<"l","o","a","d">>
KeyLoadValue == <<"l","o","a","d","_","v","a","l","u","e">>
KeyWattage == <<"w","a","t","t","a","g","e">>
KeySiteName == <<"s","i","t","e","_","n","a","m","e">>
KeyType == <<"t","y","p","e">>

Labels == {LabelMpptOrPwm, LabelBatteryType, LabelLoadValue, LabelUnknown,
           LabelValue} \cup StringsUpTo(MaxLen)
KeyPool == {KeyChargeControllerType, KeyBatteryType, KeyLoad, KeyLoadValue,
            KeyWattage, KeyType} \cup StringsUpTo(MaxLen)

\* list(d.keys()): the keys of a dict are pairwise different.
RECURSIVE KeyListsUpTo(_)
KeyListsUpTo(n) ==
    IF n = 0 THEN {<<>>}
    ELSE LET shorter == KeyListsUpTo(n - 1)
         IN  shorter \cup
             {Append(ks, k) : ks \in {x \in shorter : Len(x) = n - 1},
                              k \in KeyPool}

KeyLists ==
    {ks \in KeyListsUpTo(MaxKeys) : \A i, j \in DOMAIN ks : i # j => ks[i] # ks[j]}

----------------------------------------------------------------------------
(* The matcher called on its own                                           *)

\* The variables of a call of normalize_key on its own.
normalizer_vars == <<norm_arg, normalized, renormalized>>

\* These variables while no such call runs.
NormalizerIdle ==
    /\ norm_arg = <<>>
    /\ normalized = <<>>
    /\ renormalized = <<>>

\* The variables of the watcher and of the web viewer.
workflow_vars == <<folder_files, event_queue, processed_files, watcher_pc,
                   watcher_path, watcher_runs, web_pc, web_path, arrivals>>

\* These variables while neither the watcher nor the web viewer runs.
WorkflowIdle ==
    /\ folder_files = {}
    /\ event_queue = <<>>
    /\ processed_files = {}
    /\ watcher_pc = "stopped"
    /\ watcher_path = ""
    /\ watcher_runs = <<>>
    /\ web_pc = "stopped"
    /\ web_path = ""
    /\ arrivals = 0

\* The variables of the template pipeline while only the matcher runs.
PipelineIdle ==
    /\ template = EmptySheet
    /\ arg_data = PyNone
    /\ ws = EmptySheet
    /\ data = PyNone
    /\ template_format = "none"
    /\ header_row = 0
    /\ filled = 0
    /\ saved = [written |-> FALSE, ws |-> EmptySheet]

InitMatch ==
    /\ pc = "match"
    /\ template_field \in Labels
    /\ data_keys \in KeyLists
    /\ matching_key = PyNone
    /\ return_line = 0
    /\ PipelineIdle
    /\ NormalizerIdle
    /\ WorkflowIdle

\* One call of find_matching_data_key(template_field, data_keys).
FindMatchingDataKey ==
    /\ pc = "match"
    /\ LET r == find_matching_data_key(template_field, data_keys)
       IN  /\ matching_key' = r.key
           /\ return_line' = r.line
    /\ pc' = "matched"
    /\ UNCHANGED <<template_field, data_keys, template, arg_data, ws, data,
                   template_format, header_row, filled, saved, normalizer_vars,
                   workflow_vars>>

NextMatch == FindMatchingDataKey

SpecMatch == InitMatch /\ [][NextMatch]_vars

----------------------------------------------------------------------------
(* The matcher called on the entries of the synonym table                  *)

LabelLoadValueTemperature == <<"L","o","a","d"," ","V","a","l","u","e"," ","T","e","m","p","e","r","a","t","u","r","e">>
KeyMaxLoad == <<"m","a","x","_","l","o","a","d">>
KeyTemperatures == <<"t","e","m","p","e","r","a","t","u","r","e","s">>
KeyTotalWattage == <<"t","o","t","a","l","_","w","a","t","t","a","g","e">>

\* Labels to which one or two patterns of the table apply, and keys that
\* only the candidate spellings of these patterns reach.
SynonymLabels == {LabelLoadValue, LabelLoadValueTemperature}
SynonymKeyPool == {KeyMaxLoad, KeyWattage, KeyTemperatures, KeyTotalWattage}
SynonymKeyLists ==
    {<<>>} \cup {<<a>> : a \in SynonymKeyPool}
           \cup {ks \in {<<a, b>> : a \in SynonymKeyPool, b \in SynonymKeyPool} :
                     ks[1] # ks[2]}

\* Every declaration of the dict display: its pattern as the label, each of
\* its candidate spellings as the only data key.
DeclaredCalls ==
    UNION {{[label |-> FieldMappingsDisplay[d][1],
             keys |-> <<FieldMappingsDisplay[d][2][c]>>] :
               c \in DOMAIN FieldMappingsDisplay[d][2]} :
           d \in DOMAIN FieldMappingsDisplay}

InitTable ==
    /\ pc = "match"
    /\ \/ \E call \in DeclaredCalls :
              /\ template_field = call.label
              /\ data_keys = call.keys
       \/ /\ template_field \in SynonymLabels
          /\ data_keys \in SynonymKeyLists
    /\ matching_key = PyNone
    /\ return_line = 0
    /\ PipelineIdle
    /\ NormalizerIdle
    /\ WorkflowIdle

SpecTable == InitTable /\ [][NextMatch]_vars

----------------------------------------------------------------------------
(* Inputs of fill_excel_template                                           *)

MaxSystems == 3    \* longest systems list
MaxPlaced == 3     \* most non-empty rows of a template of the layout detector

TextItem == <<"I","t","e","m">>
TextQuestions == <<"Q","u","e","s","t","i","o","n","s","?">>
TextSite1 == <<"S","i","t","e"," ","1">>
TextSite2 == <<"S","i","t","e"," ","2">>
TextBatteryTypeQ == <<"B","a","t","t","e","r","y"," ","T","y","p","e","?">>
TextTypeOfBatteryQ == <<"T","y","p","e"," ","o","f"," ","b","a","t","t","e","r","y","?">>
TextRemarks == <<"R","e","m","a","r","k","s">>
TextEnquiry == <<"E","n","q","u","i","r","y">>
TextOld == <<"o","l","d">>
TextTypeQQ == <<"T","y","p","e","?","?">>
TextWhyQ == <<"W","h","y","?">>
TextWhyQQ == <<"W","h","y","?","?">>
TextS1 == <<"S","1">>
TextS2 == <<"S","2">>
TextVRLA == <<"V","R","L","A">>
TextNiCd == <<"N","i","C","d">>

\* The worksheet of a file whose row r holds the values rows[r], left to
\* right; a None stands for a cell the file does not hold.
SheetOfRows(rows) ==
    LET held == {rc \in UNION {{r} \X DOMAIN rows[r] : r \in DOMAIN rows} :
                    rows[rc[1]][rc[2]] # PyNone}
    IN  [cells |-> [rc \in held |-> rows[rc[1]][rc[2]]],
         max_row |-> IF held = {} THEN 1 ELSE Max({rc[1] : rc \in held}),
         max_column |-> IF held = {} THEN 1 ELSE Max({rc[2] : rc \in held})]

\* Header rows: two site columns, and three site columns of which two carry
\* the same text.
HeaderRows ==
    {<<PyStr(TextItem), PyStr(TextSite1), PyStr(TextSite2)>>,
     <<PyStr(TextItem), PyStr(TextSite1), PyStr(TextSite1), PyStr(TextSite2)>>}

\* Label rows: a label that matches battery_type, with earlier content in
\* column C, and a label that matches nothing, with earlier content in B.
LabelRows ==
    {<<PyStr(TextBatteryTypeQ), PyNone, PyStr(TextOld)>>,
     <<PyStr(TextRemarks), PyStr(TextOld)>>}

LabelRowSeqs ==
    {<<>>} \cup {<<a>> : a \in LabelRows} \cup {<<a, b>> : a, b \in LabelRows}

TitleRow == <<PyStr(TextEnquiry)>>

\* A template with three question labels and no header, and a template
\* that has neither.
QuestionTemplate ==
    SheetOfRows(<<<<PyStr(TextTypeOfBatteryQ)>>,
                  <<PyStr(TextBatteryTypeQ), PyNone, PyStr(TextOld)>>,
                  <<PyStr(TextBatteryTypeQ), PyStr(TextOld)>>>>)
PlainTemplate ==
    SheetOfRows(<<<<PyStr(TextItem), PyStr(TextSite1)>>,
                  <<PyStr(TextBatteryTypeQ), PyNone, PyStr(TextOld)>>,
                  <<PyStr(TextRemarks), PyStr(TextOld)>>>>)

RECURSIVE SeqsUpTo(_, _)
SeqsUpTo(S, n) ==
    IF n = 0 THEN {<<>>}
    ELSE LET shorter == SeqsUpTo(S, n - 1)
         IN  shorter \cup {Append(s, x) : s \in {y \in shorter : Len(y) = n - 1},
                                          x \in S}

\* Multi-column templates, with and without a title row above the header,
\* and the two other templates.
FillTemplates ==
    {SheetOfRows(title \o <<header>> \o rows) :
        title \in {<<>>, <<TitleRow>>},
        header \in HeaderRows,
        rows \in LabelRowSeqs}
        \cup {QuestionTemplate, PlainTemplate}

\* Systems: without site_name, and with site names one of which repeats.
SystemPool ==
    {PyDict(<<<<KeyBatteryType, PyStr(TextVRLA)>>>>),
     PyDict(<<<<SiteNameKey, PyStr(TextS1)>>, <<KeyBatteryType, PyStr(TextVRLA)>>>>),
     PyDict(<<<<SiteNameKey, PyStr(TextS1)>>, <<KeyBatteryType, PyStr(TextNiCd)>>>>),
     PyDict(<<<<SiteNameKey, PyStr(TextS2)>>, <<KeyBatteryType, PyStr(TextNiCd)>>>>)}

SystemLists == SeqsUpTo(SystemPool, MaxSystems)

\* The data argument: a dict with a systems list, a bare list of systems, a
\* dict without systems, and values that are neither a dict nor a list.
FillData ==
    {PyDict(<<<<SystemsKey, PyList(l)>>>>) : l \in SystemLists}
        \cup {PyList(l) : l \in {x \in SystemLists : Len(x) <= 1}}
        \cup {PyDict(<<<<KeyBatteryType, PyStr(TextVRLA)>>>>), PyStr(TextOld), PyInt(7)}

\* Rows of the templates of the layout detector, columns A, B, C: two
\* headers, the second with a question label in A; a row whose C is 0; a
\* question label longer than LabelMinLen and a shorter one.
DetectRows ==
    {<<PyStr(TextItem), PyStr(TextSite1), PyStr(TextSite2)>>,
     <<PyStr(TextQuestions), PyStr(TextSite1), PyStr(TextSite2)>>,
     <<PyStr(TextItem), PyStr(TextSite1), PyInt(0)>>,
     <<PyStr(TextTypeQQ)>>,
     <<PyStr(TextWhyQ)>>}

\* The rows a generated template may use: the first rows and the rows around
\* the ends of the two scans.
DetectPositions ==
    {1, 2, VerticalScanStop - 1, VerticalScanStop, HeaderScanStop - 1, HeaderScanStop}

\* Three question rows above a header row at the stop of the header scan.
DetectLateHeader ==
    SheetOfRows((1 :> <<PyStr(TextTypeQQ)>>) @@ (2 :> <<PyStr(TextTypeQQ)>>)
                @@ ((VerticalScanStop - 1) :> <<PyStr(TextTypeQQ)>>)
                @@ (HeaderScanStop :> <<PyStr(TextItem), PyStr(TextSite1),
                                        PyStr(TextSite2)>>))

\* Two question rows, then a question of LabelMinLen characters, a number,
\* and a question row at the stop of the vertical scan.
DetectNearVertical ==
    SheetOfRows((1 :> <<PyStr(TextTypeQQ)>>) @@ (2 :> <<PyStr(TextTypeQQ)>>)
                @@ (3 :> <<PyStr(TextWhyQQ)>>) @@ (4 :> <<PyInt(48)>>)
                @@ (VerticalScanStop :> <<PyStr(TextTypeQQ)>>))

DetectTemplates ==
    {SheetOfRows(rows) :
        rows \in UNION {[P -> DetectRows] :
                           P \in {Q \in SUBSET DetectPositions : Cardinality(Q) <= MaxPlaced}}}
        \cup {DetectLateHeader, DetectNearVertical}

DetectData == {PyDict(<<<<KeyType, PyStr(TextVRLA)>>>>)}

----------------------------------------------------------------------------
(* fill_excel_template                                                     *)

MatcherIdle ==
    /\ template_field = <<>>
    /\ data_keys = <<>>
    /\ matching_key = PyNone
    /\ return_line = 0

InitCall(templates, datas) ==
    /\ pc = "start"
    /\ template \in templates
    /\ arg_data \in datas
    /\ ws = template
    /\ data = arg_data
    /\ template_format = "none"
    /\ header_row = 0
    /\ filled = 0
    /\ saved = [written |-> FALSE, ws |-> EmptySheet]
    /\ MatcherIdle
    /\ NormalizerIdle
    /\ WorkflowIdle

Init == InitCall(FillTemplates, FillData)
InitDetect == InitCall(DetectTemplates, DetectData)

matcher_vars == <<template_field, data_keys, matching_key, return_line>>

\* "Normalize data" and "Detect format".
Detect ==
    /\ pc = "start"
    /\ data' = IF data.t = "list" THEN PyDict(<<<<SystemsKey, data>>>>) ELSE data
    /\ LET r == detect_template_format(ws)
       IN  /\ template_format' = r.format
           /\ header_row' = r.header_row
           /\ ws' = r.ws
    /\ pc' = "detected"
    /\ UNCHANGED <<template, arg_data, filled, saved, matcher_vars, normalizer_vars,
                   workflow_vars>>

\* Variant of Raise that goes on to save the workbook as it is.
Raise_Continue ==
    /\ pc' = "filled"
    /\ UNCHANGED <<ws, data, filled>>

\* A filler called on data that is no dict raises; fill_excel_template
\* catches the exception and returns False.
Raise ==
    /\ pc' = "failed"
    /\ UNCHANGED <<ws, data, filled>>

\* The multi-column branch.
FillMultiColumn ==
    /\ pc = "detected"
    /\ template_format = "multi-column" /\ header_row > 0
    /\ IF data.t = "dict"
       THEN LET r == fill_multicolumn_template(ws, data, header_row)
            IN  /\ ws' = r.ws
                /\ filled' = r.filled
                /\ pc' = "filled"
                /\ UNCHANGED data
       ELSE Raise
    /\ UNCHANGED <<template, arg_data, template_format, header_row, saved,
                   matcher_vars, normalizer_vars, workflow_vars>>

\* The call of fill_vertical_template of the vertical and fallback branches.
CallFillVertical ==
    IF data.t = "dict"
    THEN LET r == fill_vertical_template(ws, data)
         IN  /\ ws' = r.ws
             /\ data' = r.data
             /\ filled' = r.filled
             /\ pc' = "filled"
    ELSE Raise

\* The vertical branch.
FillVertical ==
    /\ pc = "detected"
    /\ ~(template_format = "multi-column" /\ header_row > 0)
    /\ template_format = "vertical"
    /\ CallFillVertical
    /\ UNCHANGED <<template, arg_data, template_format, header_row, saved,
                   matcher_vars, normalizer_vars, workflow_vars>>

\* Variant of FillFallback that fills nothing for a horizontal template.
FillFallback_NoFill ==
    /\ pc = "detected"
    /\ ~(template_format = "multi-column" /\ header_row > 0)
    /\ template_format # "vertical"
    /\ pc' = "filled"
    /\ UNCHANGED <<ws, data, filled>>
    /\ UNCHANGED <<template, arg_data, template_format, header_row, saved,
                   matcher_vars, normalizer_vars, workflow_vars>>

\* The else branch, "Fallback to vertical".
FillFallback ==
    /\ pc = "detected"
    /\ ~(template_format = "multi-column" /\ header_row > 0)
    /\ template_format # "vertical"
    /\ CallFillVertical
    /\ UNCHANGED <<template, arg_data, template_format, header_row, saved,
                   matcher_vars, normalizer_vars, workflow_vars>>

\* wb.save(output_path) and return True.
Save ==
    /\ pc = "filled"
    /\ saved' = [written |-> TRUE, ws |-> ws]
    /\ pc' = "done"
    /\ UNCHANGED <<template, arg_data, ws, data, template_format, header_row, filled,
                   matcher_vars, normalizer_vars, workflow_vars>>

Next == Detect \/ FillMultiColumn \/ FillVertical \/ FillFallback \/ Save

Spec == Init /\ [][Next]_vars
SpecDetect == InitDetect /\ [][Next]_vars


----------------------------------------------------------------------------
(* normalize_key called on its own                                         *)

MaxKeyLen == 3    \* longest key handed to normalize_key

\* An upper-case and a lower-case letter, the two replaced characters and two
\* whitespace characters.
KeyAlphabet == {"a", "A", "_", "-", " ", "\t"}

RECURSIVE KeyStringsUpTo(_)
KeyStringsUpTo(n) ==
    IF n = 0 THEN {<<>>}
    ELSE LET shorter == KeyStringsUpTo(n - 1)
         IN  shorter \cup {Append(s, c) : s \in {x \in shorter : Len(x) = n - 1},
                                          c \in KeyAlphabet}

InitNormalize ==
    /\ pc = "normalize"
    /\ norm_arg \in KeyStringsUpTo(MaxKeyLen)
    /\ normalized = <<>>
    /\ renormalized = <<>>
    /\ MatcherIdle
    /\ PipelineIdle
    /\ WorkflowIdle

\* normalize_key(key)
NormalizeKey ==
    /\ pc = "normalize"
    /\ normalized' = normalize_key(norm_arg)
    /\ pc' = "normalized"
    /\ UNCHANGED <<norm_arg, renormalized, matcher_vars, template, arg_data, ws, data,
                   template_format, header_row, filled, saved, workflow_vars>>

\* normalize_key applied to the value it returned.
NormalizeAgain ==
    /\ pc = "normalized"
    /\ renormalized' = normalize_key(normalized)
    /\ pc' = "renormalized"
    /\ UNCHANGED <<norm_arg, normalized, matcher_vars, template, arg_data, ws, data,
                   template_format, header_row, filled, saved, workflow_vars>>

NextNormalize == NormalizeKey \/ NormalizeAgain

SpecNormalize == InitNormalize /\ [][NextNormalize]_vars


----------------------------------------------------------------------------
(* Inputs for the value shapes                                             *)

TextProjectName == <<"P","r","o","j","e","c","t"," ","N","a","m","e">>
TextBatteryType == <<"B","a","t","t","e","r","y"," ","T","y","p","e">>
TextEquipmentList == <<"E","q","u","i","p","m","e","n","t"," ","L","i","s","t">>
TextRemarksQ == <<"R","e","m","a","r","k","s","?">>
TextProjectNameQ == <<"P","r","o","j","e","c","t"," ","N","a","m","e","?">>
TextEquipmentListQ == <<"E","q","u","i","p","m","e","n","t"," ","L","i","s","t","?">>
TextAlpha == <<"A","l","p","h","a">>
TextX == <<"x">>
TextY == <<"y">>
KeyRemarks == <<"r","e","m","a","r","k","s">>
KeyProjectName == <<"p","r","o","j","e","c","t","_","n","a","m","e">>

\* Two records: one with a falsy entry, one with falsy entries only.
RecordMixed == PyDict(<<<<KeyType, PyStr(TextVRLA)>>, <<KeyLoad, PyInt(0)>>>>)
RecordFalsy == PyDict(<<<<KeyLoad, PyInt(0)>>>>)

\* The shapes of a value: scalars (a string, the empty string, a number, 0),
\* lists of scalars, a list of records, records.
ValuePool ==
    {PyStr(TextVRLA), PyStr(<<>>), PyInt(48), PyInt(0),
     PyList(<<>>), PyList(<<PyStr(TextVRLA), PyInt(48)>>),
     PyList(<<RecordMixed, RecordFalsy>>),
     RecordMixed, RecordFalsy, PyDict(<<>>)}

\* Two systems with different keys: the first holds remarks, the second
\* battery_type; both named, and both without site_name.
UnevenSystemsData ==
    {PyDict(<<<<SystemsKey,
               PyList(<<PyDict(<<<<SiteNameKey, PyStr(TextS1)>>,
                                  <<KeyRemarks, PyStr(TextX)>>>>),
                        PyDict(<<<<SiteNameKey, PyStr(TextS2)>>,
                                  <<KeyBatteryType, PyStr(TextVRLA)>>>>)>>)>>>>),
     PyDict(<<<<SystemsKey,
               PyList(<<PyDict(<<<<KeyRemarks, PyStr(TextX)>>>>),
                        PyDict(<<<<KeyBatteryType, PyStr(TextVRLA)>>>>)>>)>>>>)}

\* The data argument: one system named S1 that holds a value under remarks;
\* project_name and battery_type at the top level; items, with and without an
\* equipment_list; a top-level remarks beside a first system with remarks.
FormatData ==
    {PyDict(<<<<SystemsKey,
               PyList(<<PyDict(<<<<SiteNameKey, PyStr(TextS1)>>, <<KeyRemarks, v>>>>)>>)>>>>) :
        v \in ValuePool}
        \cup {PyDict(<<<<KeyProjectName, PyStr(TextAlpha)>>,
                       <<KeyBatteryType, PyStr(TextVRLA)>>>>),
              PyDict(<<<<ItemsKey, PyList(<<RecordMixed, PyStr(TextX)>>)>>,
                       <<KeyRemarks, PyStr(TextY)>>>>),
              PyDict(<<<<EquipmentListKey, PyStr(TextOld)>>,
                       <<ItemsKey, PyList(<<RecordMixed, PyStr(TextX)>>)>>>>),
              PyDict(<<<<KeyRemarks, PyStr(TextX)>>,
                       <<SystemsKey,
                         PyList(<<PyDict(<<<<KeyRemarks, PyStr(TextY)>>,
                                            <<KeyBatteryType, PyStr(TextVRLA)>>>>)>>)>>>>)}
        \cup UnevenSystemsData

\* A multi-column template, a template of question labels and a template of
\* plain labels; Remarks has earlier content in the column that is filled,
\* Enquiry matches no key.
FormatMultiTemplate ==
    SheetOfRows(<<<<PyStr(TextItem), PyStr(TextSite1), PyStr(TextSite2)>>,
                  <<PyStr(TextRemarks), PyStr(TextOld)>>,
                  <<PyStr(TextEnquiry), PyStr(TextOld)>>,
                  <<PyStr(TextBatteryType)>>>>)
FormatQuestionTemplate ==
    SheetOfRows(<<<<PyStr(TextProjectNameQ)>>,
                  <<PyStr(TextBatteryTypeQ)>>,
                  <<PyStr(TextRemarksQ), PyStr(TextOld)>>,
                  <<PyStr(TextEquipmentListQ)>>>>)
FormatPlainTemplate ==
    SheetOfRows(<<<<PyStr(TextProjectName)>>,
                  <<PyStr(TextBatteryType)>>,
                  <<PyStr(TextEnquiry), PyStr(TextOld)>>,
                  <<PyStr(TextRemarks), PyStr(TextOld)>>,
                  <<PyInt(48), PyStr(TextOld)>>,
                  <<PyStr(TextEquipmentList)>>>>)

FormatTemplates == {FormatMultiTemplate, FormatQuestionTemplate, FormatPlainTemplate}

InitFormat == InitCall(FormatTemplates, FormatData)

SpecFormat == InitFormat /\ [][Next]_vars

----------------------------------------------------------------------------
(* The watcher (main.py) and the upload path of the web viewer              *)
(* (web_viewer.py), both working on the watched folders                     *)

MaxArrivals == 3   \* files dropped, removed or uploaded in one behaviour

\* PDF paths below WATCH_DIRECTORY, and the folder of each: process_workflow
\* takes the template of os.path.dirname(pdf_path).
PdfPaths == {"BOQ/a.pdf", "BOQ/b.pdf", "Sizing/a.pdf"}
FolderOf(path) == IF path = "Sizing/a.pdf" THEN "Sizing" ELSE "BOQ"

\* The variables of the pipeline, the matcher and the normaliser, which the
\* watcher and the web viewer leave alone.
core_vars == <<pc, template, arg_data, ws, data, template_format, header_row,
               filled, saved, matcher_vars, normalizer_vars>>

InitWorkflow ==
    /\ pc = "none"
    /\ PipelineIdle
    /\ MatcherIdle
    /\ NormalizerIdle
    /\ folder_files = {}
    /\ event_queue = <<>>
    /\ processed_files = {}
    /\ watcher_pc = "idle"
    /\ watcher_path = ""
    /\ watcher_runs = [p \in PdfPaths |-> 0]
    /\ web_pc = "idle"
    /\ web_path = ""
    /\ arrivals = 0

\* A PDF is copied into a watched folder: the observer queues a file-created
\* event for the handler.
DropFile(path) ==
    /\ arrivals < MaxArrivals
    /\ path \notin folder_files
    /\ folder_files' = folder_files \cup {path}
    /\ event_queue' = Append(event_queue, path)
    /\ arrivals' = arrivals + 1
    /\ UNCHANGED <<processed_files, watcher_pc, watcher_path, watcher_runs,
                   web_pc, web_path, core_vars>>

\* A PDF is deleted from a watched folder.
RemoveFile(path) ==
    /\ arrivals < MaxArrivals
    /\ path \in folder_files
    /\ folder_files' = folder_files \ {path}
    /\ arrivals' = arrivals + 1
    /\ UNCHANGED <<event_queue, processed_files, watcher_pc, watcher_path,
                   watcher_runs, web_pc, web_path, core_vars>>

\* on_created up to time.sleep(2): the observer's thread takes the next event;
\* a path already in processed_files is dropped.
OnCreated ==
    /\ watcher_pc = "idle"
    /\ event_queue # <<>>
    /\ event_queue' = Tail(event_queue)
    /\ IF Head(event_queue) \in processed_files
       THEN UNCHANGED <<watcher_pc, watcher_path>>
       ELSE /\ watcher_pc' = "waiting"
            /\ watcher_path' = Head(event_queue)
    /\ UNCHANGED <<folder_files, processed_files, watcher_runs, web_pc, web_path,
                   arrivals, core_vars>>

\* on_created after the sleep: processed_files.add(filepath), then the call
\* of process_workflow.
MarkProcessed ==
    /\ watcher_pc = "waiting"
    /\ processed_files' = processed_files \cup {watcher_path}
    /\ watcher_runs' = [watcher_runs EXCEPT ![watcher_path] = @ + 1]
    /\ watcher_pc' = "workflow"
    /\ UNCHANGED <<folder_files, event_queue, watcher_path, web_pc, web_path,
                   arrivals, core_vars>>

\* process_workflow in the watcher up to the call of fill_excel_template: it
\* returns early, or raises, when a file is missing or nothing was extracted.
WatcherWorkflow ==
    /\ watcher_pc = "workflow"
    /\ \/ watcher_path \in folder_files /\ watcher_pc' = "filling"
       \/ watcher_pc' = "idle"
    /\ UNCHANGED <<folder_files, event_queue, processed_files, watcher_path,
                   watcher_runs, web_pc, web_path, arrivals, core_vars>>

\* fill_excel_template returns in the watcher.
WatcherFillDone ==
    /\ watcher_pc = "filling"
    /\ watcher_pc' = "idle"
    /\ UNCHANGED <<folder_files, event_queue, processed_files, watcher_path,
                   watcher_runs, web_pc, web_path, arrivals, core_vars>>

\* do_POST saves an uploaded PDF into its category's watched folder; a file
\* that was not there before is a created file for the observer.
Upload(path) ==
    /\ web_pc = "idle"
    /\ arrivals < MaxArrivals
    /\ folder_files' = folder_files \cup {path}
    /\ event_queue' = IF path \in folder_files THEN event_queue
                      ELSE Append(event_queue, path)
    /\ web_pc' = "saved"
    /\ web_path' = path
    /\ arrivals' = arrivals + 1
    /\ UNCHANGED <<processed_files, watcher_pc, watcher_path, watcher_runs,
                   core_vars>>

\* process_uploaded_pdf runs process_single.py, which calls process_workflow
\* if the file exists and exits otherwise.
SpawnProcessSingle ==
    /\ web_pc = "saved"
    /\ web_pc' = IF web_path \in folder_files THEN "workflow" ELSE "idle"
    /\ UNCHANGED <<folder_files, event_queue, processed_files, watcher_pc,
                   watcher_path, watcher_runs, web_path, arrivals, core_vars>>

\* process_workflow in process_single.py up to the call of
\* fill_excel_template.
WebWorkflow ==
    /\ web_pc = "workflow"
    /\ \/ web_path \in folder_files /\ web_pc' = "filling"
       \/ web_pc' = "idle"
    /\ UNCHANGED <<folder_files, event_queue, processed_files, watcher_pc,
                   watcher_path, watcher_runs, web_path, arrivals, core_vars>>

\* fill_excel_template returns in process_single.py, and subprocess.run in
\* the web viewer.
WebFillDone ==
    /\ web_pc = "filling"
    /\ web_pc' = "idle"
    /\ UNCHANGED <<folder_files, event_queue, processed_files, watcher_pc,
                   watcher_path, watcher_runs, web_path, arrivals, core_vars>>

NextWorkflow ==
    \/ \E path \in PdfPaths : DropFile(path)
    \/ \E path \in PdfPaths : RemoveFile(path)
    \/ OnCreated
    \/ MarkProcessed
    \/ WatcherWorkflow
    \/ WatcherFillDone
    \/ \E path \in PdfPaths : Upload(path)
    \/ SpawnProcessSingle
    \/ WebWorkflow
    \/ WebFillDone

SpecWorkflow == InitWorkflow /\ [][NextWorkflow]_vars

----------------------------------------------------------------------------
(* Claims about find_matching_data_key                                     *)

\* Positions of the data keys whose normalised form equals the label's.
ExactKeys ==
    {i \in DOMAIN data_keys :
        normalize_key(data_keys[i]) = normalize_key(template_field)}

\* Positions of the data keys whose normalised form contains the label's or
\* is contained in it.
SubstringKeys ==
    {i \in DOMAIN data_keys :
        \/ IsSubstring(normalize_key(data_keys[i]), normalize_key(template_field))
        \/ IsSubstring(normalize_key(template_field), normalize_key(data_keys[i]))}

\* Positions of the table entries whose pattern occurs in the normalised label.
ApplicablePatterns ==
    {p \in DOMAIN FIELD_MAPPINGS :
        IsSubstring(FIELD_MAPPINGS[p][1], normalize_key(template_field))}

\* Positions of the data keys spelled as a candidate of an applicable pattern.
CandidateSpelledKeys ==
    {i \in DOMAIN data_keys :
        \E p \in ApplicablePatterns :
            \E c \in DOMAIN FIELD_MAPPINGS[p][2] :
                data_keys[i] = FIELD_MAPPINGS[p][2][c]}

\* C1: when some data key's normalised form equals the normalised label, the
\* first such key in data_keys order is returned, whatever earlier keys
\* substring-match and whatever synonym patterns apply.
C1_ExactMatchFirst ==
    (pc = "matched" /\ ExactKeys # {}) =>
        matching_key = PyStr(data_keys[Min(ExactKeys)])

\* C1 witness: the exact key comes second, after a key that substring-matches,
\* and a synonym pattern applies to the label.
C1_Witness ==
    /\ pc = "matched"
    /\ Len(data_keys) = 2
    /\ ExactKeys = {2}
    /\ 1 \in SubstringKeys
    /\ ApplicablePatterns # {}
    /\ matching_key = PyStr(data_keys[2])

\* C2: a key is returned by the synonym step only when no key matches exactly
\* and none substring-matches; when some key substring-matches, a
\* substring-matching key is returned even if the synonym table leads to
\* another key.
C2_SynonymOnlyAsLastResort ==
    pc = "matched" =>
        /\ return_line = 121 => (ExactKeys = {} /\ SubstringKeys = {})
        /\ SubstringKeys # {} =>
               /\ return_line \in {107, 113}
               /\ \E i \in SubstringKeys : matching_key = PyStr(data_keys[i])

\* C2 witness: a key substring-matches, the synonym table alone would give a
\* different key, and the substring-matching key is returned.
C2_Witness ==
    /\ pc = "matched"
    /\ ExactKeys = {}
    /\ SubstringKeys # {}
    /\ \E m \in {MappingFound(FIELD_MAPPINGS, normalize_key(template_field), data_keys)} :
           m # 0 /\ PyStr(data_keys[m]) # matching_key
    /\ \E i \in SubstringKeys : matching_key = PyStr(data_keys[i])

\* C3: for a label containing a synonym pattern, with no exact and no
\* substring match, a data key spelled as one of the pattern's candidates is
\* returned (label "MPPT or PWM", data key charge_controller_type).
C3_CandidateSpellingReturned ==
    (/\ pc = "matched"
     /\ ExactKeys = {}
     /\ SubstringKeys = {}
     /\ CandidateSpelledKeys # {}) =>
        \E i \in CandidateSpelledKeys : matching_key = PyStr(data_keys[i])

----------------------------------------------------------------------------
(* Claims about the order of the matcher's steps                           *)

\* C21: when no data key matches the label exactly and several keys
\* substring-match it, the key returned is the one that comes first in
\* data_keys order, whichever of the two contains the other and however long
\* the common part is.
C21_FirstSubstringKeyReturned ==
    (pc = "matched" /\ ExactKeys = {} /\ SubstringKeys # {}) =>
        /\ matching_key = PyStr(data_keys[Min(SubstringKeys)])
        /\ return_line = 113

\* C21 witness: the first key contains the label, the second key is contained
\* in the label and is shorter, and the first key is returned.
C21_Witness ==
    /\ pc = "matched"
    /\ ExactKeys = {}
    /\ Len(data_keys) = 2
    /\ SubstringKeys = {1, 2}
    /\ IsSubstring(normalize_key(template_field), normalize_key(data_keys[1]))
    /\ IsSubstring(normalize_key(data_keys[2]), normalize_key(template_field))
    /\ normalize_key(data_keys[2]) # <<>>
    /\ Len(data_keys[2]) < Len(data_keys[1])
    /\ matching_key = PyStr(data_keys[1])

\* The hits of the synonym step: pattern position, candidate position and key
\* position of every candidate spelling of an applicable pattern that equals
\* a normalised key or is contained in it.
ClaimSynonymHits ==
    UNION {UNION {{<<p, c, k>> : k \in {i \in DOMAIN data_keys :
                       MappingHit(FIELD_MAPPINGS[p][2][c], data_keys[i])}} :
                  c \in DOMAIN FIELD_MAPPINGS[p][2]} :
           p \in ApplicablePatterns}

\* Lexicographic order on hits.
ClaimHitBefore(a, b) ==
    \/ a[1] < b[1]
    \/ a[1] = b[1] /\ a[2] < b[2]
    \/ a[1] = b[1] /\ a[2] = b[2] /\ a[3] <= b[3]

\* C22: when the synonym step is reached, the key returned is the key of the
\* least hit in the lexicographic order (declaration position of the pattern,
\* position of the candidate spelling in its list, position of the key in
\* data_keys); so a later pattern decides only if no candidate of an earlier
\* applicable pattern reaches a key. Without a hit nothing is returned.
C22_SynonymOrder ==
    (pc = "matched" /\ ExactKeys = {} /\ SubstringKeys = {}) =>
        IF ClaimSynonymHits = {}
        THEN matching_key = PyNone /\ return_line = 123
        ELSE /\ return_line = 121
             /\ \E h \in ClaimSynonymHits :
                    /\ \A g \in ClaimSynonymHits : ClaimHitBefore(h, g)
                    /\ matching_key = PyStr(data_keys[h[3]])

\* C22 witness: two patterns apply, the first key is reached only through the
\* later pattern, the second key through the earlier one, and the second key
\* is returned.
C22_Witness ==
    /\ pc = "matched"
    /\ return_line = 121
    /\ Len(data_keys) = 2
    /\ matching_key = PyStr(data_keys[2])
    /\ \E h \in ClaimSynonymHits, g \in ClaimSynonymHits :
           /\ h[3] = 2 /\ g[3] = 1
           /\ h[1] < g[1]
           /\ \A f \in ClaimSynonymHits : f[3] = 1 => f[1] = g[1]

\* The declarations of the label's text as a pattern in the dict display.
ClaimDeclarations ==
    {d \in DOMAIN FieldMappingsDisplay :
        FieldMappingsDisplay[d][1] = template_field}

\* The candidate lists the synonym step walks for the pattern spelled as the
\* label.
ClaimUsedLists ==
    {FIELD_MAPPINGS[p][2] :
        p \in {q \in DOMAIN FIELD_MAPPINGS : FIELD_MAPPINGS[q][1] = template_field}}

\* The patterns declared before the first declaration of the label's text.
ClaimEarlierPatterns ==
    {FieldMappingsDisplay[d][1] : d \in 1..(Min(ClaimDeclarations) - 1)}

\* C27 as stated: for a pattern declared more than once, the candidate list
\* the matcher uses is the list of the first declaration.
C27_FirstDeclarationUsed ==
    (pc = "matched" /\ Cardinality(ClaimDeclarations) > 1) =>
        ClaimUsedLists = {FieldMappingsDisplay[Min(ClaimDeclarations)][2]}

\* C27 amended: for a pattern declared more than once, the candidate list the
\* matcher uses is the list of the last declaration, and the pattern keeps
\* the place of its first declaration in the order of the table.
C27_LastDeclarationUsed ==
    (pc = "matched" /\ Cardinality(ClaimDeclarations) > 1) =>
        /\ ClaimUsedLists = {FieldMappingsDisplay[Max(ClaimDeclarations)][2]}
        /\ FIELD_MAPPINGS[Cardinality(ClaimEarlierPatterns) + 1][1] = template_field

\* C27 witness: the matcher was called on a pattern declared twice with
\* different candidate lists.
C27_Witness ==
    /\ pc = "matched"
    /\ Cardinality(ClaimDeclarations) = 2
    /\ FieldMappingsDisplay[Min(ClaimDeclarations)][2]
           # FieldMappingsDisplay[Max(ClaimDeclarations)][2]
    /\ ClaimUsedLists = {FieldMappingsDisplay[Max(ClaimDeclarations)][2]}

\* C29: the matcher never matches on empty text: a label whose normalised form
\* is empty matches no key, and a key whose normalised form is empty is never
\* returned for a label whose normalised form is not empty.
C29_NoMatchOnEmptyText ==
    pc = "matched" =>
        /\ normalize_key(template_field) = <<>> => matching_key = PyNone
        /\ normalize_key(template_field) # <<>> =>
               \A i \in DOMAIN data_keys :
                   matching_key = PyStr(data_keys[i]) =>
                       normalize_key(data_keys[i]) # <<>>

\* The label is a pattern of the dict display and the only data key is one of
\* the candidate spellings declared for it.
ClaimDeclaredCall ==
    /\ Len(data_keys) = 1
    /\ \E d \in ClaimDeclarations :
           \E c \in DOMAIN FieldMappingsDisplay[d][2] :
               data_keys[1] = FieldMappingsDisplay[d][2][c]

\* Spellings of a label that could carry the pattern, and spellings of a data
\* key that could carry the candidate: as written, and with the separators
\* exchanged.
ClaimLabelSpellings(pattern) ==
    {pattern, Replace(pattern, "-", " "), Replace(pattern, "-", "_"),
     Replace(pattern, " ", "-")}
ClaimKeySpellings(candidate) ==
    {candidate, Replace(candidate, "_", " "), Replace(candidate, "_", "-")}

\* C30: every entry of the synonym table is usable: for each pattern there is
\* a label whose normalised form contains the pattern, and for each candidate
\* spelling there is a data key that the synonym step matches with it.
C30_EveryEntryUsable ==
    (pc = "matched" /\ ClaimDeclaredCall) =>
        /\ \E label \in ClaimLabelSpellings(template_field) :
               IsSubstring(template_field, normalize_key(label))
        /\ \E key \in ClaimKeySpellings(data_keys[1]) :
               MappingHit(data_keys[1], key)

----------------------------------------------------------------------------
(* Claims about fill_multicolumn_template                                  *)

\* The multi-column filler has returned.
MultiColumnFilled ==
    /\ pc \in {"filled", "done"}
    /\ template_format = "multi-column"

\* The systems list the filler received.
ClaimSystems == DictGet(data, SystemsKey, PyList(<<>>)).l

\* The site columns of the template, left to right: the non-empty header cells
\* in columns 2 up to column 20 or the template's last column.
ClaimSiteColumns ==
    Sorted({c \in 2..Min({20, MaxColumnOf(template)}) :
                CellValue(template, header_row, c) # PyNone})

\* The number of systems that get a column.
ClaimAssignedCount == Min({Len(ClaimSystems), Len(ClaimSiteColumns)})

\* The key of the first system that the label of a row matches, or None.
ClaimRowKey(row) ==
    IF Truthy(CellValue(template, row, 1))
    THEN find_matching_data_key(StrOf(CellValue(template, row, 1)),
                                DictKeys(ClaimSystems[1])).key
    ELSE PyNone

\* The rows below the header whose label matches a key.
ClaimMatchedRows ==
    {row \in (header_row + 1)..MaxRowOf(template) : Truthy(ClaimRowKey(row))}

\* The cell content for the value a system holds under a key.
ClaimSystemValue(system, key) ==
    FormatMultiColumn(DictGet(system, key.s, PyStr(<<>>)))

\* C4: for every i below min(number of systems, number of site columns) and
\* every matched row below the header, the i-th site column holds the value of
\* the i-th system, whatever the site_name values are.
C4_PositionalFill ==
    (MultiColumnFilled /\ ClaimSystems # <<>>) =>
        \A i \in 1..ClaimAssignedCount :
            \A row \in ClaimMatchedRows :
                CellValue(ws, row, ClaimSiteColumns[i])
                    = ClaimSystemValue(ClaimSystems[i], ClaimRowKey(row))

\* The data with its systems list cut to the systems that get a column.
ClaimAssignedOnly ==
    PyDict(<<<<SystemsKey, PyList(SubSeq(ClaimSystems, 1, ClaimAssignedCount))>>>>)

\* C5: a system at a position from the number of site columns on causes no
\* cell to be written, whatever its site_name: the cells are those the filler
\* leaves when called without these systems; and the site columns beyond the
\* number of systems keep their cells.
C5_UnassignedSystemsWriteNothing ==
    (MultiColumnFilled /\ ClaimSystems # <<>>) =>
        /\ ws.cells =
               fill_multicolumn_template(detect_template_format(template).ws,
                                         ClaimAssignedOnly, header_row).ws.cells
        /\ \A j \in (ClaimAssignedCount + 1)..Len(ClaimSiteColumns) :
               \A row \in header_row..MaxRowOf(template) :
                   CellValue(ws, row, ClaimSiteColumns[j])
                       = CellValue(template, row, ClaimSiteColumns[j])

\* C6: the returned count is the number of matched rows times
\* min(number of systems, number of site columns).
C6_FillCount ==
    (MultiColumnFilled /\ ClaimSystems # <<>>) =>
        filled = Cardinality(ClaimMatchedRows) * ClaimAssignedCount

\* The header text of the i-th system: its site_name, or System_i counting
\* from 1.
ClaimHeaderText(i) ==
    IF DictHas(ClaimSystems[i], SiteNameKey)
    THEN DictGet(ClaimSystems[i], SiteNameKey, PyNone)
    ELSE PyStr(<<"S","y","s","t","e","m","_">> \o IntStr(i))

\* C7: with a non-empty systems list, the header cell of the i-th site column
\* holds the i-th system's site_name, or System_{i+1} (i from 0)
\* when the system has none, for every assigned i; every other cell of the
\* header row is as in the template.
C7_HeaderRewritten ==
    (MultiColumnFilled /\ ClaimSystems # <<>>) =>
        \A c \in 1..MaxColumnOf(ws) :
            CellValue(ws, header_row, c) =
                IF \E i \in 1..ClaimAssignedCount : ClaimSiteColumns[i] = c
                THEN ClaimHeaderText(CHOOSE i \in 1..ClaimAssignedCount :
                                         ClaimSiteColumns[i] = c)
                ELSE CellValue(template, header_row, c)

----------------------------------------------------------------------------
(* Claims about the columns and the keys of fill_multicolumn_template      *)

\* The columns the filler recorded as site columns, in the order in which it
\* assigns them.
ClaimRecordedColumns == ColIndices(template, header_row)

\* C25: every non-empty header cell in columns 2 up to column 20 or the
\* template's last column is recorded as its own site column, left to right:
\* the recorded columns are these cells' columns, as many as there are such
\* cells, also when two header cells carry the same text.
C25_EveryHeaderCellRecorded ==
    (MultiColumnFilled /\ ClaimSystems # <<>>) =>
        /\ ClaimRecordedColumns = ClaimSiteColumns
        /\ Len(ClaimRecordedColumns)
               = Cardinality({c \in 2..Min({20, MaxColumnOf(template)}) :
                                  CellValue(template, header_row, c) # PyNone})

\* The cell content for what a system holds under a key: the formatted value,
\* or the empty string if the system lacks the key.
ClaimOwnValue(system, key) ==
    IF DictHas(system, key.s)
    THEN FormatMultiColumn(DictGet(system, key.s, PyNone))
    ELSE PyStr(<<>>)

\* C26: each row label is matched once, against the keys of systems[0] only;
\* in a matched row every assigned system gets in its column the value it
\* holds itself under the matched key, the empty string if it lacks the key,
\* and counts as one filled cell either way; a row whose label matches no key
\* of systems[0] is filled for no system, whatever the other systems hold.
C26_KeysOfFirstSystemOnly ==
    (MultiColumnFilled /\ ClaimSystems # <<>>) =>
        /\ \A row \in (header_row + 1)..MaxRowOf(template) :
               \A i \in 1..ClaimAssignedCount :
                   CellValue(ws, row, ClaimSiteColumns[i])
                       = IF row \in ClaimMatchedRows
                         THEN ClaimOwnValue(ClaimSystems[i], ClaimRowKey(row))
                         ELSE CellValue(template, row, ClaimSiteColumns[i])
        /\ filled = Cardinality(ClaimMatchedRows) * ClaimAssignedCount

----------------------------------------------------------------------------
(* Claims about detect_template_format and the fallback                    *)

\* Layout detection has run.
Detected == pc # "start"

\* The lower-cased text of column A of a row contains "item" or "question".
ClaimItemOrQuestion(row) ==
    /\ CellValue(template, row, 1) # PyNone
    /\ \/ IsSubstring(<<"i","t","e","m">>, Lower(StrOf(CellValue(template, row, 1))))
       \/ IsSubstring(<<"q","u","e","s","t","i","o","n">>,
                      Lower(StrOf(CellValue(template, row, 1))))

\* An item/question row whose columns B and C are non-empty.
ClaimHeaderNonEmpty(row) ==
    /\ ClaimItemOrQuestion(row)
    /\ CellValue(template, row, 2) # PyNone
    /\ CellValue(template, row, 3) # PyNone

\* An item/question row whose columns A, B and C hold truthy values: no None,
\* no 0, no empty string.
ClaimHeaderTruthy(row) ==
    /\ ClaimItemOrQuestion(row)
    /\ Truthy(CellValue(template, row, 1))
    /\ Truthy(CellValue(template, row, 2))
    /\ Truthy(CellValue(template, row, 3))

\* C8 as stated: if some row in rows 1..30 is an item/question row with
\* non-empty columns B and C, the result is multi-column with the smallest
\* such row as header row.
C8_HeaderInRows1To30 ==
    (Detected /\ \E r \in 1..30 : ClaimHeaderNonEmpty(r)) =>
        /\ template_format = "multi-column"
        /\ header_row = Min({r \in 1..30 : ClaimHeaderNonEmpty(r)})

\* C8: if some row in rows 1..29 is an item/question row with truthy columns
\* A, B and C, the result is multi-column with the smallest such row as header
\* row; this holds for a header at any of the rows 1 through 29.
C8_HeaderInRows1To29 ==
    (Detected /\ \E r \in 1..29 : ClaimHeaderTruthy(r)) =>
        /\ template_format = "multi-column"
        /\ header_row = Min({r \in 1..29 : ClaimHeaderTruthy(r)})

\* C8 witness: the header is found at row 29, the last row scanned, below a
\* row that is no header.
C8_Witness ==
    /\ Detected
    /\ ClaimHeaderTruthy(29)
    /\ \E r \in 1..28 : CellValue(template, r, 1) # PyNone
    /\ template_format = "multi-column"
    /\ header_row = 29

\* Column A of a row contains "?".
ClaimHasQuestionMark(row) ==
    /\ CellValue(template, row, 1) # PyNone
    /\ IsSubstring(<<"?">>, StrOf(CellValue(template, row, 1)))

\* Column A of a row is a string of more than 5 characters that contains "?".
ClaimLongQuestion(row) ==
    /\ CellValue(template, row, 1).t = "str"
    /\ Len(CellValue(template, row, 1).s) > 5
    /\ ClaimHasQuestionMark(row)

\* The template has no item/question header row.
ClaimNoHeaderRow == \A r \in 1..MaxRowOf(template) : ~ClaimHeaderNonEmpty(r)

\* C9 as stated: a template with at least 3 rows whose column-A cell contains
\* "?" and with no item/question header row is classified vertical.
C9_ThreeQuestionRows ==
    (/\ Detected
     /\ Cardinality({r \in 1..MaxRowOf(template) : ClaimHasQuestionMark(r)}) >= 3
     /\ ClaimNoHeaderRow)
        => template_format = "vertical"

\* C9: a template with at least 3 rows among rows 1..24 whose column-A cell is
\* a string longer than 5 characters containing "?" and with no item/question
\* header row is classified vertical.
C9_ThreeLongQuestionRowsIn1To24 ==
    (/\ Detected
     /\ Cardinality({r \in 1..24 : ClaimLongQuestion(r)}) >= 3
     /\ ClaimNoHeaderRow)
        => template_format = "vertical"

\* C9 witness: exactly three long question rows, one of them at row 24, make
\* the template vertical.
C9_Witness ==
    /\ Detected
    /\ Cardinality({r \in 1..24 : ClaimLongQuestion(r)}) = 3
    /\ ClaimLongQuestion(24)
    /\ ClaimNoHeaderRow
    /\ template_format = "vertical"

\* The multi-column probe and the vertical probe, on the template.
ClaimMultiColumnProbe == \E r \in 1..29 : ClaimHeaderTruthy(r)
ClaimVerticalProbe == Cardinality({r \in 1..24 : ClaimLongQuestion(r)}) >= 3

\* What fill_vertical_template makes of the template after the scans, with
\* the data the caller passed (a list wrapped under "systems").
ClaimVerticalFill ==
    fill_vertical_template(
        detect_template_format(template).ws,
        IF arg_data.t = "list" THEN PyDict(<<<<SystemsKey, arg_data>>>>) ELSE arg_data)

\* C10: the result is one of multi-column with a header row >= 1, vertical
\* with header row 0, horizontal with header row 0; it is horizontal exactly
\* when neither probe succeeds; and a horizontal template is filled by
\* fill_vertical_template, with the cells and the count that call produces.
C10_HorizontalFallsBackToVertical ==
    /\ Detected =>
        /\ \/ template_format = "multi-column" /\ header_row >= 1
           \/ template_format = "vertical" /\ header_row = 0
           \/ template_format = "horizontal" /\ header_row = 0
        /\ template_format = "horizontal"
               <=> (~ClaimMultiColumnProbe /\ ~ClaimVerticalProbe)
    /\ (pc \in {"filled", "done"} /\ template_format = "horizontal") =>
        /\ ws = ClaimVerticalFill.ws
        /\ filled = ClaimVerticalFill.filled
    /\ (pc = "done" /\ template_format = "horizontal") => saved.ws = ClaimVerticalFill.ws

\* C10 witness: a horizontal template with question rows was filled in
\* column B and saved.
C10_Witness ==
    /\ pc = "done"
    /\ template_format = "horizontal"
    /\ header_row = 0
    /\ \E r \in 1..MaxRowOf(template) : ClaimHasQuestionMark(r)
    /\ filled > 0
    /\ \E r \in 1..MaxRowOf(template) :
           CellValue(template, r, 2) = PyNone /\ CellValue(saved.ws, r, 2) # PyNone

----------------------------------------------------------------------------
(* Claims about the order and the counting of the two probes               *)

\* C23 as stated: a template with an item/question row with non-empty columns
\* B and C in rows 1..30 and with at least 3 qualifying question rows is
\* classified multi-column, never vertical.
C23_MultiColumnBeforeVertical1To30 ==
    (Detected /\ (\E r \in 1..30 : ClaimHeaderNonEmpty(r)) /\ ClaimVerticalProbe) =>
        template_format = "multi-column"

\* C23 amended: a template with an item/question row with truthy columns A, B
\* and C in rows 1..29 and with at least 3 qualifying question rows is
\* classified multi-column, never vertical.
C23_MultiColumnBeforeVertical ==
    (Detected /\ (\E r \in 1..29 : ClaimHeaderTruthy(r)) /\ ClaimVerticalProbe) =>
        /\ template_format = "multi-column"
        /\ header_row >= 1

\* C23 witness: three question rows in rows 1..24, one of them a header row,
\* and the result is multi-column.
C23_Witness ==
    /\ Detected
    /\ Cardinality({r \in 1..24 : ClaimLongQuestion(r)}) = 3
    /\ \E r \in 1..29 : ClaimHeaderTruthy(r)
    /\ \E r \in 1..24 : ClaimLongQuestion(r) /\ ~ClaimHeaderTruthy(r)
    /\ template_format = "multi-column"

\* The rows the vertical probe counts: rows 1..24, no further than the last
\* row of the template, whose column A is a string of more than 5 characters
\* containing "?".
ClaimCountedRows ==
    {r \in 1..Min({24, MaxRowOf(template)}) : ClaimLongQuestion(r)}

\* C24: when the multi-column probe finds nothing, the result is vertical
\* exactly when at least 3 rows are counted, and horizontal otherwise; rows
\* beyond 24, values that are no strings and strings of 5 characters or fewer
\* are not counted.
C24_VerticalProbeCount ==
    (Detected /\ template_format # "multi-column") =>
        /\ template_format = "vertical" <=> Cardinality(ClaimCountedRows) >= 3
        /\ template_format = "horizontal" <=> Cardinality(ClaimCountedRows) < 3
        /\ header_row = 0

\* C24 witness: two counted rows, and beside them a question of 5 characters,
\* a number, and a question row at row 25; the result is horizontal.
C24_Witness ==
    /\ Detected
    /\ Cardinality(ClaimCountedRows) = 2
    /\ \E r \in 1..24 :
           /\ CellValue(template, r, 1).t = "str"
           /\ Len(CellValue(template, r, 1).s) = 5
           /\ ClaimHasQuestionMark(r)
    /\ \E r \in 1..24 : CellValue(template, r, 1).t = "int"
    /\ ClaimLongQuestion(25)
    /\ template_format = "horizontal"

----------------------------------------------------------------------------
(* Claims about normalize_key                                              *)

\* C16: normalize_key is idempotent: applied to its own result it returns
\* that result.
C16_NormalizeIdempotent ==
    pc = "renormalized" => renormalized = normalized

\* C16 witness: a key with a leading underscore and an upper-case letter was
\* normalised to "a", and normalising "a" returned "a".
C16_Witness ==
    /\ pc = "renormalized"
    /\ Len(norm_arg) >= 2
    /\ norm_arg[1] = "_"
    /\ \E i \in DOMAIN norm_arg : norm_arg[i] = "A"
    /\ normalized = <<"a">>
    /\ renormalized = <<"a">>

\* The key lower-cased, with each underscore and each hyphen replaced by one
\* space.
ClaimLoweredAndSpaced(key) ==
    [i \in DOMAIN key |-> IF key[i] \in {"_", "-"} THEN " " ELSE LowerChar(key[i])]

\* A string without its leading and trailing whitespace.
ClaimTrimmed(s) ==
    IF \A i \in DOMAIN s : s[i] \in Whitespace THEN <<>>
    ELSE SubSeq(s, CHOOSE i \in DOMAIN s :
                       s[i] \notin Whitespace /\ \A j \in 1..(i - 1) : s[j] \in Whitespace,
                   CHOOSE i \in DOMAIN s :
                       s[i] \notin Whitespace /\ \A j \in (i + 1)..Len(s) : s[j] \in Whitespace)

\* C17: normalize_key returns a value for every string; the value is the
\* input lower-cased, with every underscore and every hyphen replaced by one
\* space and without leading and trailing whitespace; it holds no underscore
\* and no hyphen and neither starts nor ends with whitespace.
C17_NormalizeKeyResult ==
    /\ pc = "normalize" => ENABLED NormalizeKey
    /\ pc \in {"normalized", "renormalized"} =>
        /\ normalized = ClaimTrimmed(ClaimLoweredAndSpaced(norm_arg))
        /\ \A i \in DOMAIN normalized : normalized[i] \notin {"_", "-"}
        /\ normalized # <<>> =>
               /\ normalized[1] \notin Whitespace
               /\ normalized[Len(normalized)] \notin Whitespace

\* C17 witness: "A-a" was normalised to "a a".
C17_Witness ==
    /\ pc = "normalized"
    /\ norm_arg = <<"A", "-", "a">>
    /\ normalized = <<"a", " ", "a">>

----------------------------------------------------------------------------
(* Claims about fill_vertical_template and the value formats               *)

\* fill_vertical_template has returned.
VerticalFilled ==
    /\ pc \in {"filled", "done"}
    /\ template_format \in {"vertical", "horizontal"}

\* The key that the label of a row matches among the keys of the data, or
\* None; a row whose column A is no string or is empty has no label.
ClaimLabelKey(row) ==
    IF CellValue(template, row, 1).t = "str" /\ CellValue(template, row, 1).s # <<>>
    THEN find_matching_data_key(CellValue(template, row, 1).s, DictKeys(data)).key
    ELSE PyNone

\* The rows whose label matches a data key.
ClaimLabelRows == {row \in 1..MaxRowOf(template) : ClaimLabelKey(row) # PyNone}

\* C11: after fill_vertical_template, column B of every row whose column A is
\* a non-empty string that matches a data key holds the formatted value of
\* the matched key, and the returned count is the number of these rows.
C11_VerticalFill ==
    VerticalFilled =>
        /\ \A row \in ClaimLabelRows :
               CellValue(ws, row, 2)
                   = FormatVertical(DictGet(data, ClaimLabelKey(row).s, PyNone))
        /\ filled = Cardinality(ClaimLabelRows)

\* C11 witness: rows Project Name and Battery Type with project_name = Alpha
\* and battery_type = VRLA give column B Alpha, VRLA and count 2.
C11_Witness ==
    /\ VerticalFilled
    /\ CellValue(template, 1, 1) = PyStr(TextProjectName)
    /\ CellValue(template, 2, 1) = PyStr(TextBatteryType)
    /\ arg_data = PyDict(<<<<KeyProjectName, PyStr(TextAlpha)>>,
                           <<KeyBatteryType, PyStr(TextVRLA)>>>>)
    /\ CellValue(ws, 1, 2) = PyStr(TextAlpha)
    /\ CellValue(ws, 2, 2) = PyStr(TextVRLA)
    /\ filled = 2

\* The "k: v" pairs of a mapping, those with a falsy value left out, joined
\* with a separator.
ClaimRecordText(record, sep) ==
    LET kept == SelectSeq(record.l, LAMBDA pair : Truthy(pair[2]))
    IN  Join(sep, [i \in DOMAIN kept |-> kept[i][1] \o <<":", " ">> \o StrOf(kept[i][2])])

\* The cell content of a value: a list of mappings as one line per mapping,
\* a list of scalars joined with ", ", a mapping as its pairs joined with
\* ", ", a scalar as it is.
ClaimCellContent(value) ==
    CASE value.t = "list" /\ \A i \in DOMAIN value.l : value.l[i].t = "dict" ->
            PyStr(Join(<<"\n">>,
                       [i \in DOMAIN value.l |->
                           ClaimRecordText(value.l[i], <<" ", "|", " ">>)]))
      [] value.t = "list" /\ \E i \in DOMAIN value.l : value.l[i].t # "dict" ->
            PyStr(Join(<<",", " ">>, [i \in DOMAIN value.l |-> StrOf(value.l[i])]))
      [] value.t = "dict" -> PyStr(ClaimRecordText(value, <<",", " ">>))
      [] OTHER -> value

\* C15: the value fill_vertical_template writes for a matched key is, for a
\* list of scalars, its elements joined with ", "; for a list of mappings, one
\* line per mapping, each its "k: v" pairs joined with " | " without the
\* falsy-valued entries, the lines joined with newline; for a mapping, its
\* "k: v" pairs joined with ", " without the falsy-valued entries; for a
\* scalar, the scalar.
C15_VerticalValueFormat ==
    VerticalFilled =>
        \A row \in ClaimLabelRows :
            CellValue(ws, row, 2)
                = ClaimCellContent(DictGet(data, ClaimLabelKey(row).s, PyNone))

\* C15 witness: a list of two mappings, the first with one falsy entry, the
\* second with falsy entries only, was written as "type: VRLA" and an empty
\* second line.
C15_Witness ==
    /\ VerticalFilled
    /\ DictGet(data, KeyRemarks, PyNone) = PyList(<<RecordMixed, RecordFalsy>>)
    /\ \E row \in ClaimLabelRows :
           /\ ClaimLabelKey(row) = PyStr(KeyRemarks)
           /\ CellValue(template, row, 2) = PyStr(TextOld)
           /\ CellValue(ws, row, 2)
                  = PyStr(<<"t","y","p","e",":"," ","V","R","L","A","\n">>)

\* The cell content fill_vertical_template writes for a value: column B of a
\* row labelled Remarks, filled from a mapping that holds the value under
\* remarks.
ClaimVerticalCell(value) ==
    CellValue(fill_vertical_template(SheetOfRows(<<<<PyStr(TextRemarks)>>>>),
                                     PyDict(<<<<KeyRemarks, value>>>>)).ws, 1, 2)

\* The rows below the header that are labelled Remarks.
ClaimRemarksRows ==
    {row \in (header_row + 1)..MaxRowOf(template) :
        CellValue(template, row, 1) = PyStr(TextRemarks)}

\* The first system of the data; an empty mapping when there is none.
ClaimFirstSystem ==
    IF Truthy(DictGet(data, SystemsKey, PyNone))
    THEN DictGet(data, SystemsKey, PyNone).l[1]
    ELSE PyDict(<<>>)

\* C14: the cell content fill_multicolumn_template writes for a value equals
\* the cell content fill_vertical_template writes for the same value, for
\* every shape of the value: here for the value that the system of the first
\* site column, named S1, holds under remarks.
C14_SameFormatInBothFillers ==
    (/\ pc \in {"filled", "done"}
     /\ template_format = "multi-column"
     /\ DictGet(ClaimFirstSystem, SiteNameKey, PyNone) = PyStr(TextS1)
     /\ DictHas(ClaimFirstSystem, KeyRemarks))
        => \A row \in ClaimRemarksRows :
               CellValue(ws, row, 2)
                   = ClaimVerticalCell(DictGet(ClaimFirstSystem, KeyRemarks, PyNone))

\* C19 as stated: fill_vertical_template changes the data mapping only by
\* adding to it: every key it held before the call is still there, with the
\* value it had.
C19_DataOnlyAdditive ==
    (VerticalFilled /\ arg_data.t = "dict") =>
        \A i \in DOMAIN arg_data.l :
            /\ DictHas(data, arg_data.l[i][1])
            /\ DictGet(data, arg_data.l[i][1], PyNone) = arg_data.l[i][2]

\* C19: every key the data mapping held before the call is still there after
\* it; every key other than equipment_list has the value it had, so promoting
\* the first system's fields changes no value of a key that was there; an
\* equipment_list that was there holds the folded items when items is a list.
C19_DataAdditiveButEquipmentList ==
    (VerticalFilled /\ arg_data.t = "dict") =>
        \A i \in DOMAIN arg_data.l :
            /\ DictHas(data, arg_data.l[i][1])
            /\ \/ DictGet(data, arg_data.l[i][1], PyNone) = arg_data.l[i][2]
               \/ /\ arg_data.l[i][1] = EquipmentListKey
                  /\ DictGet(arg_data, ItemsKey, PyNone).t = "list"
                  /\ DictGet(data, EquipmentListKey, PyNone).t = "str"

\* C19 witness: the data held remarks at the top level and in its first
\* system; after the call remarks has its top-level value and battery_type
\* of the first system was added.
C19_Witness ==
    /\ VerticalFilled
    /\ DictGet(arg_data, KeyRemarks, PyNone) = PyStr(TextX)
    /\ Truthy(DictGet(arg_data, SystemsKey, PyNone))
    /\ DictGet(DictGet(arg_data, SystemsKey, PyNone).l[1], KeyRemarks, PyNone) = PyStr(TextY)
    /\ ~DictHas(arg_data, KeyBatteryType)
    /\ DictGet(data, KeyRemarks, PyNone) = PyStr(TextX)
    /\ DictGet(data, KeyBatteryType, PyNone) = PyStr(TextVRLA)

----------------------------------------------------------------------------
(* Claims about what the fillers leave alone, and about failure             *)

\* The cells whose content differs between the template and the worksheet.
ClaimChangedCells ==
    {rc \in (1..Max({MaxRowOf(ws), MaxRowOf(template)}))
                \X (1..Max({MaxColumnOf(ws), MaxColumnOf(template)})) :
        CellValue(ws, rc[1], rc[2]) # CellValue(template, rc[1], rc[2])}

\* The site columns that have a system: the first min(number of systems,
\* number of site columns) site columns.
ClaimAssignedColumns == {ClaimSiteColumns[i] : i \in 1..ClaimAssignedCount}

\* C12: fill_vertical_template changes no cell other than column B of the
\* rows whose label matched; fill_multicolumn_template changes no cell other
\* than the header cells of the assigned site columns and the cells of the
\* matched rows below the header in the assigned site columns.
C12_Frame ==
    /\ VerticalFilled =>
           \A rc \in ClaimChangedCells : rc[2] = 2 /\ rc[1] \in ClaimLabelRows
    /\ (MultiColumnFilled /\ data.t = "dict") =>
           \A rc \in ClaimChangedCells :
               /\ ClaimSystems # <<>>
               /\ rc[2] \in ClaimAssignedColumns
               /\ rc[1] = header_row \/ rc[1] \in ClaimMatchedRows

\* C13: when the data has no systems key or its systems list is empty,
\* fill_multicolumn_template returns 0 and changes no cell of the template,
\* header cells included.
C13_NoSystemsNoChange ==
    (/\ MultiColumnFilled
     /\ ~DictHas(data, SystemsKey) \/ DictGet(data, SystemsKey, PyNone) = PyList(<<>>))
        => /\ filled = 0
           /\ ws.cells = template.cells

\* C13 witness: data without systems whose key battery_type matches a label
\* below the header; nothing was filled and the file was saved as it was.
C13_Witness ==
    /\ pc = "done"
    /\ template_format = "multi-column"
    /\ ~DictHas(data, SystemsKey)
    /\ DictHas(data, KeyBatteryType)
    /\ \E row \in (header_row + 1)..MaxRowOf(template) :
           CellValue(template, row, 1) = PyStr(TextBatteryTypeQ)
    /\ filled = 0
    /\ saved.ws.cells = template.cells

\* The rows that fill_vertical_template reads a label from and finds no key
\* for.
ClaimUnmatchedLabelRows ==
    {row \in 1..MaxRowOf(template) :
        /\ CellValue(template, row, 1).t = "str"
        /\ CellValue(template, row, 1).s # <<>>
        /\ ClaimLabelKey(row) = PyNone}

\* The rows below the header that fill_multicolumn_template reads a label
\* from and finds no key for.
ClaimUnmatchedRows ==
    {row \in (header_row + 1)..MaxRowOf(template) :
        Truthy(CellValue(template, row, 1)) /\ ClaimRowKey(row) = PyNone}

\* The cells of a row are as in the template.
ClaimRowUntouched(row) ==
    \A c \in 1..Max({MaxColumnOf(ws), MaxColumnOf(template)}) :
        CellValue(ws, row, c) = CellValue(template, row, c)

\* The names under which the filler keeps a column: those of the systems
\* that get one of the columns it recorded.
ClaimColumnNames ==
    {ClaimHeaderText(i) :
        i \in 1..Min({Len(ClaimSystems), Len(ColIndices(template, header_row))})}

\* The systems the filler writes a cell for in a matched row.
ClaimWritingSystems ==
    {i \in DOMAIN ClaimSystems :
        DictGet(ClaimSystems[i], SiteNameKey, PyStr(<<>>)) \in ClaimColumnNames}

\* C18: a row for whose label find_matching_data_key returns None has none of
\* its cells written by either filler and adds nothing to the fill count, and
\* the rows after it are processed: the count is made up of the matched rows
\* alone, and fill_vertical_template fills every matched row.
C18_UnmatchedRowsSkipped ==
    /\ VerticalFilled =>
        /\ \A row \in ClaimUnmatchedLabelRows : ClaimRowUntouched(row)
        /\ filled = Cardinality(ClaimLabelRows)
        /\ \A row \in ClaimLabelRows :
               CellValue(ws, row, 2)
                   = FormatVertical(DictGet(data, ClaimLabelKey(row).s, PyNone))
    /\ (MultiColumnFilled /\ ClaimSystems # <<>>) =>
        /\ \A row \in ClaimUnmatchedRows : ClaimRowUntouched(row)
        /\ filled = Cardinality(ClaimMatchedRows) * Cardinality(ClaimWritingSystems)

\* C18 witness: in a multi-column template a row labelled Remarks, which
\* matches no key, stands above a row that matched and was filled; the
\* Remarks row kept its earlier content.
C18_Witness ==
    /\ MultiColumnFilled
    /\ ClaimSystems # <<>>
    /\ filled > 0
    /\ \E row \in ClaimUnmatchedRows :
           /\ CellValue(template, row, 1) = PyStr(TextRemarks)
           /\ CellValue(ws, row, 2) = PyStr(TextOld)
           /\ \E later \in ClaimMatchedRows :
                  /\ later > row
                  /\ \E c \in 2..MaxColumnOf(ws) :
                         CellValue(ws, later, c) # CellValue(template, later, c)

\* C20: when the data is neither a mapping nor a list, fill_excel_template
\* fails whatever layout was detected: no filler returns, no cell is filled
\* and no output file is saved.
C20_NonMappingDataFails ==
    arg_data.t \notin {"dict", "list"} =>
        /\ pc \in {"start", "detected", "failed"}
        /\ pc = "detected" => ENABLED (FillMultiColumn \/ FillVertical \/ FillFallback)
        /\ ws.cells = template.cells
        /\ filled = 0
        /\ ~saved.written

\* C20 witness: a call with a string as data has failed on a template that
\* was detected as vertical.
C20_Witness ==
    /\ pc = "failed"
    /\ arg_data = PyStr(TextOld)
    /\ template_format = "vertical"
    /\ ~saved.written

----------------------------------------------------------------------------
(* Claims about the watcher and the web upload path                        *)

\* The watcher, or the web upload path, is inside process_workflow.
ClaimWatcherRuns == watcher_pc \in {"workflow", "filling"}
ClaimWebRuns == web_pc \in {"workflow", "filling"}

\* C28: at no time are two runs for the template of the same folder in
\* progress, one in the watcher and one in the web upload path, so at most one
\* fill_excel_template run is active against a template; and the watcher
\* processes no file path twice.
C28_OneRunPerTemplate ==
    /\ ~(/\ ClaimWatcherRuns
         /\ ClaimWebRuns
         /\ FolderOf(watcher_path) = FolderOf(web_path))
    /\ \A path \in DOMAIN watcher_runs : watcher_runs[path] <= 1

====
